---- MODULE Spec2Model ----
(***************************************************************************)
(* OpsMap agent: offline buffer (agent/src/buffer/mod.rs), check scheduler *)
(* (agent/src/scheduler/mod.rs) and the supervisor, read loop and buffer   *)
(* drain loop of agent/src/main.rs.                                        *)
(*                                                                         *)
(* Four specifications share the variables:                                *)
(*   BufSpec   - the OfflineBuffer API driven by an arbitrary caller       *)
(*   Spec      - the running agent (run_agent and the tasks it spawns)     *)
(*   TimedSpec - the agent on a link that stays up, with a clock           *)
(*   LiveSpec  - Spec with fairness of the agent's own steps               *)
(***************************************************************************)
EXTENDS Integers, Sequences, FiniteSets, TLC

(* ------------------------------ bounds --------------------------------- *)
\* largest max_size a buffer is created with
MaxCap == 2
\* pushes of one BufSpec run
MaxPush == 4
\* connections the agent establishes in one run
MaxSessions == 2
\* deltas the scheduler loops produce in one run
MaxDeltas == 2
\* deltas the scheduler loops produce in one clocked run
MaxTimedDeltas == 3
\* seconds of the clock
MaxTime == 3
\* commands the Gateway sends the agent in one run
MaxCmds == 2
\* agent sessions the Gateway serves in one run
MaxGwSessions == 2
\* commands the Backend sends the Gateway in one run
MaxGwCmds == 1
\* seconds of the Gateway's clock
MaxGwTime == 2
\* calls of the registry's API in one run
MaxRegCalls == 2
\* commands the sessions take from their channels while the registry's API is called
MaxRegRecv == 1
\* the width in bits at which max_age_secs (u64) and its cast (i64) are modelled
AgeWidth == 3
\* agent sessions the Gateway serves while its bridge is followed
MaxBridgeSessions == 1
\* connections of the bridge to the Backend in one run
MaxConns == 2
\* heartbeats and pings of one run of the bridge
MaxBeats == 1
\* messages of agents the sessions publish for the bridge, beyond those of their start and end
MaxPublished == 1
\* snapshot and ping messages the Backend sends in one run
MaxBackendMsgs == 1
\* deltas in one status_batch
MaxBatch == 2
\* mpsc::channel::<AgentCommand>(100)
ChannelCapacity == 100

(* ----------------------------- variables ------------------------------- *)
VARIABLES
  \* OfflineBuffer
  queue,          \* VecDeque<serde_json::Value>
  max_size,       \* usize
  file_path,      \* Option<String>: TRUE = Some(path)
  file,           \* the lines of the buffer file (<<>> when absent)
  \* caller-side record of the buffer API (BufSpec)
  op,             \* last operation applied to the buffer
  ret,            \* what the last pop returned (None or an item)
  n_pushed,       \* pushes so far (the n-th push carries Data(n))
  n_base,         \* n_pushed when the buffer was constructed
  only_pushed,    \* TRUE while nothing but push ran since construction
  by_agent,       \* TRUE when the buffer was built by AgentState::new
  \* CheckScheduler
  snapshot,       \* Option<Snapshot>
  last_status,    \* HashMap key -> status
  last_sent,      \* HashMap key -> Instant
  \* AgentState and the gateway link
  connection,     \* Option<GatewayConnection>: 0 = None, k = k-th connection
  is_connected,
  link_up,        \* the socket of the current connection is alive
  \* tasks
  sup_pc,         \* run_agent: "connect" (connecting or sleeping before it) or "running"
  msg_pc,         \* the read loop of the current run_connected
  msg_cur,        \* the GatewayMessage being handled
  sched_pc,       \* per spawned scheduler loop
  sched_due,      \* checks_to_run still to execute in this tick
  sched_delta,    \* the delta waiting for the state lock
  pending_deltas, \* per scheduler loop
  tick_due,       \* ticker has a tick ready (clocked runs)
  clocked,        \* TRUE: the run counts seconds; FALSE: a ticker may fire at any time
  drain_pc,       \* per spawned buffer-drain loop: "off", "pop" (asleep or about to pop), "send"
  drain_data,     \* the popped item the loop holds
  \* observation
  now,            \* seconds
  delta_seq,      \* deltas produced so far
  delivered,      \* items a send returned Ok for
  evicted,        \* items dropped by push on a full buffer
  last_start,     \* key -> time of the last execution start (-1: never)
  prev_status,    \* key -> status of the previous delta produced ("none")
  replaced_at,    \* time of the last replacement of S by S' (-1: never)
  c3_waiting,     \* c3 has not started since that replacement
  batches,        \* the status_batch messages a send returned Ok for
  \* handle_gateway_message, GatewayMessage::Command
  cmd_cur,        \* the Command being handled
  cmd_result,     \* exec_result, with what really happened to the command
  cmd_count,      \* commands received so far (the n-th has id n)
  cmd_log,        \* responses built and detachment steps, in order
  \* the processes of spawn_detached, per command id
  agent_alive,    \* the agent process runs
  inter,          \* the intermediate child of the first fork
  job,            \* the grandchild of the second fork
  \* the Gateway
  agents,         \* AgentRegistry.agents: agent id -> entry (labels, tx: the session's channel)
  session,        \* per handle_agent task: pc, first frame, registered (register was called)
  cmd_rx,         \* per session: the commands queued on its mpsc channel
  backend_tx,     \* the BackendMessages sent on the broadcast channel
  route,          \* the Backend command being routed: labels, agents found, results
  enqueued,       \* the sends of send_command that returned Ok
  gw_now,         \* Utc::now() of the Gateway, in seconds
  reg_call,       \* the last call of the registry's API: op, id, ok (it returned Ok), pc,
                  \* same_shard (the ids hash to one shard of the DashMap), waiting (the
                  \* sessions whose call waits for a shard's lock),
                  \* n (calls so far), taken (commands taken from the channels so far)
  \* backend_client::run
  bridge,         \* the bridge task: pc, conn (connections made), register_msg, beats
  bridge_rx,      \* the messages waiting in rx, the bridge's receiver of backend_tx
  pub_log,        \* every message rx was handed, in the order of the sends
  backend_frames, \* the frames the Backend received from the bridge, with their connection
  backend_in,     \* the last snapshot or ping message of the Backend, n: how many so far
  \* history
  tracing,        \* TRUE: wire is kept
  wire            \* the scheduler's pushes into the buffer ("buffer") and the frames the
                  \* agent wrote to the WebSocket ("send"), in order

bufVars == <<queue, max_size, file_path, file>>
apiVars == <<op, ret, n_pushed, n_base, only_pushed, by_agent>>
schedStruct == <<snapshot, last_status, last_sent>>
linkVars == <<connection, is_connected, link_up>>
supVars == <<sup_pc>>
msgVars == <<msg_pc, msg_cur>>
schedVars ==
  <<sched_pc, sched_due, sched_delta, pending_deltas, tick_due, clocked>>
drainVars == <<drain_pc, drain_data>>
obsVars ==
  <<now, delta_seq, delivered, evicted, last_start, prev_status, replaced_at, c3_waiting>>
agentVars == <<schedStruct, linkVars, supVars, msgVars, schedVars, drainVars, obsVars>>
\* what the buffer API and the agent's connection, read, tick and drain steps leave alone
cmdVars == <<cmd_cur, cmd_result, cmd_count, cmd_log>>
procVars == <<agent_alive, inter, job>>
regVars == <<gw_now, reg_call>>
bridgeVars == <<bridge, bridge_rx, pub_log, backend_frames, backend_in>>
gwVars == <<agents, session, cmd_rx, backend_tx, route, enqueued, regVars, bridgeVars>>
extVars == <<batches, cmdVars, procVars, gwVars>>
\* history of the agent's buffer and WebSocket, kept while tracing
wireVars == <<tracing, wire>>
vars == <<bufVars, apiVars, agentVars, extVars, wireVars>>

(* ------------------------------ values --------------------------------- *)
\* chg records whether the status differs from the previous delta of the key
None == [key |-> "none", status |-> "none", id |-> 0, chg |-> FALSE]
\* the n-th value a caller pushes
Data(n) == [key |-> "c1", status |-> "ok", id |-> n, chg |-> TRUE]

\* GatewayMessage
NoMsg == [type |-> "none", checks |-> <<>>]
\* Option<Snapshot>
NoSnapshot == [some |-> FALSE, checks |-> <<>>]
Some(checks) == [some |-> TRUE, checks |-> checks]
\* the (component_id, check_name) keys of the two snapshots the Gateway pushes
S1 == <<"c1", "c2">>
S2 == <<"c2", "c3">>
Keys == {"c1", "c2", "c3"}
Statuses == {"ok", "warning"}
Gens == 1..MaxSessions
EmptyMap == [k \in {} |-> 0]

(* --------------------------- OfflineBuffer ----------------------------- *)
\* serde_json::to_string / serde_json::from_str of one buffer line
to_string(item) == [json |-> item]
from_str(line) == line.json
is_json(line) == "json" \in DOMAIN line

RECURSIVE SeqMap(_, _)
SeqMap(q, k) ==
  IF k > Len(q) THEN <<>> ELSE <<to_string(q[k])>> \o SeqMap(q, k + 1)

\* VecDeque::pop_front: the remaining queue
pop_front(q) == IF q = <<>> THEN q ELSE Tail(q)

\* the part of push that changes the queue
push_queue_drop_new(q, m, data) == IF Len(q) >= m /\ q # <<>> THEN q ELSE Append(q, data)
push_queue(q, m, data) ==
  Append(IF Len(q) >= m THEN pop_front(q) ELSE q, data)

\* the items push drops
push_dropped(q, m) == IF Len(q) >= m /\ q # <<>> THEN {Head(q)} ELSE {}

\* save_to_file: the file afterwards (io_ok: directory and file could be opened)
save_to_file(q, fp, f, io_ok) == IF fp /\ io_ok THEN SeqMap(q, 1) ELSE f

\* load_from_file: the queue after replaying the lines f into q
RECURSIVE load_from_file(_, _, _, _)
load_from_file(q, m, fp, f) ==
  IF ~fp \/ f = <<>> THEN q
  ELSE load_from_file(
         IF is_json(Head(f)) /\ Len(q) < m THEN Append(q, from_str(Head(f))) ELSE q,
         m, fp, Tail(f))

\* pop: the value returned and the queue afterwards
pop_item_back(q) == IF q = <<>> THEN None ELSE q[Len(q)]
pop_item(q) == IF q = <<>> THEN None ELSE Head(q)
pop_queue(q) == pop_front(q)

len(q) == Len(q)
is_empty(q) == q = <<>>

(* --------------------- BufSpec: the buffer API ------------------------- *)
AgentUnchanged == UNCHANGED <<agentVars, extVars, wireVars>>

\* OfflineBuffer::new(max_size)
BufNew(m) ==
  /\ queue' = <<>>
  /\ max_size' = m
  /\ file_path' = FALSE
  /\ file' = file
  /\ op' = "new" /\ ret' = None /\ n_pushed' = n_pushed /\ n_base' = n_pushed /\ only_pushed' = TRUE
  /\ by_agent' = FALSE
  /\ AgentUnchanged

\* AgentState::new(config): OfflineBuffer::new(config.buffer.max_size)
AgentStateNew(m) ==
  /\ queue' = <<>>
  /\ max_size' = m
  /\ file_path' = FALSE
  /\ file' = file
  /\ op' = "agent_new" /\ ret' = None /\ n_pushed' = n_pushed /\ n_base' = n_pushed /\ only_pushed' = TRUE
  /\ by_agent' = TRUE
  /\ AgentUnchanged

\* OfflineBuffer::with_file(max_size, path)
BufWithFile(m) ==
  /\ queue' = load_from_file(<<>>, m, TRUE, file)
  /\ max_size' = m
  /\ file_path' = TRUE
  /\ file' = file
  /\ op' = "with_file" /\ ret' = None /\ n_pushed' = n_pushed /\ n_base' = n_pushed
  /\ only_pushed' = (queue' = <<>>)
  /\ by_agent' = FALSE
  /\ AgentUnchanged

\* OfflineBuffer::push(data)
BufPush(io_ok) ==
  /\ n_pushed < MaxPush
  /\ queue' = push_queue(queue, max_size, Data(n_pushed + 1))
  /\ file' = save_to_file(queue', file_path, file, io_ok)
  /\ op' = "push" /\ ret' = None /\ n_pushed' = n_pushed + 1
  /\ UNCHANGED <<max_size, file_path, n_base, only_pushed, by_agent>>
  /\ AgentUnchanged

\* OfflineBuffer::pop()
BufPop(io_ok) ==
  /\ ret' = pop_item(queue)
  /\ queue' = pop_queue(queue)
  /\ file' = IF queue # <<>> THEN save_to_file(queue', file_path, file, io_ok) ELSE file
  /\ op' = "pop" /\ only_pushed' = FALSE
  /\ UNCHANGED <<max_size, file_path, n_pushed, n_base, by_agent>>
  /\ AgentUnchanged

\* OfflineBuffer::clear()
BufClear(io_ok) ==
  /\ queue' = <<>>
  /\ file' = IF file_path /\ io_ok THEN <<>> ELSE file
  /\ op' = "clear" /\ ret' = None /\ only_pushed' = FALSE
  /\ UNCHANGED <<max_size, file_path, n_pushed, n_base, by_agent>>
  /\ AgentUnchanged

(* ------------------------- commands: values ---------------------------- *)
CmdIds == 1..MaxCmds
AsyncTypes == {"start", "stop", "restart", "action"}
SyncTypes == {"check", "native"}
\* command_type is any string: two that execute_command does not know
UnknownTypes == {"other", "timed out"}
\* Command { id, command_type, action_name, params }: has_action = action_name is Some,
\* has_command = params carries a "command" string
NoCmd == [id |-> 0, command_type |-> "none", has_action |-> FALSE, has_command |-> FALSE]
Commands(n) ==
  [id : {n}, command_type : AsyncTypes \cup SyncTypes \cup UnknownTypes, has_action : BOOLEAN,
   has_command : BOOLEAN]

\* Result<CommandResult>; truth is what really happened to the command
NoResult == [ok |-> FALSE, exit_code |-> 0, error |-> "none", truth |-> "none"]
Ok(code, truth) == [ok |-> TRUE, exit_code |-> code, error |-> "none", truth |-> truth]
Err(msg, truth) == [ok |-> FALSE, exit_code |-> 0, error |-> msg, truth |-> truth]

\* a process: st none/running/zombie/reaped/killed, pc its next step, parent, session,
\* disposition of SIGHUP
NoProc == [st |-> "none", pc |-> "none", parent |-> "none", sid |-> "none", sighup |-> "none"]
\* the agent process: leader of nothing new, SIGHUP at its default
AgentProc == [st |-> "running", pc |-> "run", parent |-> "init", sid |-> "agent",
              sighup |-> "default"]

\* the agent sessions of the Gateway and the agent ids they register
GwSessions == 1..MaxGwSessions
AgentIds == {"A1", "A2"}
\* HashMap<String, String> labels: the maps agents register with and the selectors the
\* Backend sends
AgentLabelMaps ==
  {[role |-> "db", env |-> "prod"], [role |-> "web", env |-> "prod"], [role |-> "db"]}
Selectors ==
  {EmptyMap, [role |-> "db"], [env |-> "prod"], [role |-> "web", env |-> "prod"]}
\* the orders in which a DashMap may be iterated
Orders == {<<"A1", "A2">>, <<"A2", "A1">>}
\* no entry of the registry
NoAgent == [present |-> FALSE, labels |-> EmptyMap, tx |-> 0, last_heartbeat |-> 0]
\* the first frame of a session: a register message in a text frame or in a binary one,
\* another message, or nothing within the timeout
NoFrame == [type |-> "none", frame |-> "none", agent_id |-> "A1", labels |-> EmptyMap]
FirstMessages ==
  {[type |-> "register", frame |-> "text", agent_id |-> a, labels |-> l] :
     a \in AgentIds, l \in AgentLabelMaps}
  \cup {[type |-> "register", frame |-> "binary", agent_id |-> "A1", labels |-> EmptyMap],
        [type |-> "status_delta", frame |-> "text", agent_id |-> "A1", labels |-> EmptyMap],
        NoFrame}
\* no call of the registry's API was made
NoCall ==
  [op |-> "none", id |-> "A1", ok |-> TRUE, pc |-> "returned", n |-> 0, age |-> 0, taken |-> 0,
   same_shard |-> FALSE, waiting |-> {}]
\* a channel holding as many commands as it takes
FullQueue == [i \in 1..ChannelCapacity |-> 0]
\* no command was routed
NoRoute == [pc |-> "idle", by |-> "none", cmd |-> 0, labels |-> EmptyMap, found |-> <<>>,
            results |-> <<>>]

\* run has not started: backend_tx has no receiver
NoBridge == [pc |-> "start", conn |-> 0, register_msg |-> {}, beats |-> 0]
NoBackendMessage == [type |-> "none", agent_id |-> "A1", n |-> 0]
BridgeIdle ==
  /\ bridge = NoBridge /\ bridge_rx = <<>> /\ pub_log = <<>> /\ backend_frames = <<>>
  /\ backend_in = NoBackendMessage

\* nothing was sent as a batch, no command arrived, no process was forked, the Gateway
\* has no session
ExtIdle ==
  /\ agents = [a \in AgentIds |-> NoAgent]
  /\ session = [s \in GwSessions |-> [pc |-> "closed", first |-> NoFrame, registered |-> FALSE]]
  /\ cmd_rx = [s \in GwSessions |-> <<>>]
  /\ backend_tx = {} /\ route = NoRoute /\ enqueued = {}
  /\ gw_now = 0 /\ reg_call = NoCall
  /\ BridgeIdle
  /\ batches = {}
  /\ wire = <<>>
  /\ cmd_cur = NoCmd /\ cmd_result = NoResult /\ cmd_count = 0 /\ cmd_log = <<>>
  /\ agent_alive = TRUE
  /\ inter = [c \in CmdIds |-> NoProc]
  /\ job = [c \in CmdIds |-> NoProc]

\* the agent before run_agent's first connection attempt
AgentRest ==
  /\ snapshot = NoSnapshot
  /\ last_status = EmptyMap
  /\ last_sent = EmptyMap
  /\ connection = 0 /\ is_connected = FALSE
  /\ link_up = FALSE
  /\ sup_pc = "connect"
  /\ msg_pc = "off" /\ msg_cur = NoMsg
  /\ sched_pc = [g \in Gens |-> "off"]
  /\ sched_due = [g \in Gens |-> <<>>]
  /\ sched_delta = [g \in Gens |-> None]
  /\ pending_deltas = [g \in Gens |-> <<>>]
  /\ tick_due = [g \in Gens |-> FALSE]
  /\ drain_pc = [g \in Gens |-> "off"]
  /\ drain_data = [g \in Gens |-> None]
  /\ now = 0 /\ delta_seq = 0 /\ delivered = {} /\ evicted = {}
  /\ last_start = [k \in Keys |-> -1]
  /\ prev_status = [k \in Keys |-> "none"]
  /\ replaced_at = -1 /\ c3_waiting = FALSE

AgentIdle == ExtIdle /\ AgentRest

BufInit ==
  /\ queue = <<>>
  /\ max_size \in 0..MaxCap
  /\ file_path \in BOOLEAN
  /\ file = <<>>
  /\ op = IF file_path THEN "with_file" ELSE "agent_new"
  /\ ret = None /\ n_pushed = 0 /\ n_base = 0 /\ only_pushed = TRUE
  /\ by_agent = ~file_path
  /\ AgentIdle /\ clocked = FALSE /\ tracing = FALSE

BufNext ==
  \/ \E m \in 0..MaxCap : BufNew(m)
  \/ \E m \in 0..MaxCap : AgentStateNew(m)
  \/ \E m \in 0..MaxCap : BufWithFile(m)
  \/ \E io_ok \in BOOLEAN : BufPush(io_ok)
  \/ \E io_ok \in BOOLEAN : BufPop(io_ok)
  \/ \E io_ok \in BOOLEAN : BufClear(io_ok)

BufSpec == BufInit /\ [][BufNext]_vars

(* ------------------------- CheckScheduler ------------------------------ *)
\* CheckDefinition.interval_secs of the checks of S1 and S2
interval_secs(key) == CASE key = "c1" -> 2 [] key = "c2" -> 1 [] key = "c3" -> 1

\* update_snapshot: the scheduler's snapshot afterwards
update_snapshot(old, checks) == Some(checks)

\* get_due_checks: should_run of one check
should_run(key, sent, t) ==
  IF key \in DOMAIN sent THEN t - sent[key] >= interval_secs(key) ELSE TRUE

\* get_due_checks: the due list of one tick
get_due_checks(snap, sent, t) ==
  IF snap.some THEN SelectSeq(snap.checks, LAMBDA k : should_run(k, sent, t)) ELSE <<>>

\* run: status_changed of a delta
status_changed(statuses, key, status) ==
  IF key \in DOMAIN statuses THEN statuses[key] # status ELSE TRUE

\* process_result: the StatusDelta of one execution (id stands for its timestamp)
process_result(key, status, n, chg) == [key |-> key, status |-> status, id |-> n, chg |-> chg]

(* ----------------------- AgentState under the lock --------------------- *)
\* message_handle holds state.write() while it awaits receive_message
LockHeld == msg_pc = "recv"

\* conn.send_message returns Ok
send_ok == connection # 0 /\ link_up

RECURSIVE push_all(_, _, _)
push_all(q, m, items) ==
  IF items = <<>> THEN q ELSE push_all(push_queue(q, m, Head(items)), m, Tail(items))

RECURSIVE dropped_all(_, _, _)
dropped_all(q, m, items) ==
  IF items = <<>> THEN {}
  ELSE push_dropped(q, m) \cup dropped_all(push_queue(q, m, Head(items)), m, Tail(items))

Range(q) == {q[i] : i \in 1..Len(q)}

\* state.buffer.push(item) for each of items
StatePushHead(items) ==
  /\ queue' = push_queue(queue, max_size, Head(items))
  /\ evicted' = evicted \cup push_dropped(queue, max_size)
  /\ file' = save_to_file(queue', file_path, file, TRUE)
  /\ UNCHANGED <<max_size, file_path>>
StatePush(items) ==
  /\ queue' = push_all(queue, max_size, items)
  /\ evicted' = evicted \cup dropped_all(queue, max_size, items)
  /\ file' = save_to_file(queue', file_path, file, TRUE)
  /\ UNCHANGED <<max_size, file_path>>

\* #[serde(tag = "type", content = "payload")] enum AgentMessage
AgentTags == {"register", "status_delta", "status_batch", "command_response", "pong"}
AgentMessage(tag, payload) == [type |-> tag, payload |-> payload]
\* send_status_delta, send_status_batch: the enveloped message; send_message: the value as
\* it is
send_status_delta(delta) == AgentMessage("status_delta", delta)
send_status_batch(deltas) == AgentMessage("status_batch", [deltas |-> deltas])
send_message(data) == data
\* the "type" of the JSON object, as serde_json::from_str::<AgentMessage> looks for it
frame_type(f) == IF "type" \in DOMAIN f THEN f.type ELSE "none"

\* the history gets evs
record(evs) ==
  /\ tracing' = tracing
  /\ wire' = IF tracing THEN wire \o evs ELSE wire

\* one send of items under the lock, buffering them on failure or without a connection
send_or_buffer(frame, items, via) ==
  IF send_ok
  THEN /\ delivered' = delivered \cup Range(items)
       /\ UNCHANGED <<bufVars, evicted>>
       /\ record(<<[ev |-> "send", via |-> via, frame |-> frame]>>)
  ELSE /\ StatePush(items)
       /\ UNCHANGED delivered
       /\ record(IF via = "drain" THEN <<>>
                 ELSE [i \in 1..Len(items) |-> [ev |-> "buffer", via |-> via, frame |-> items[i]]])

(* ------------------------------ run_agent ------------------------------ *)
\* connect_to_gateway returns Ok, then run_connected spawns its three tasks
ConnectOk ==
  /\ sup_pc = "connect" /\ ~LockHeld
  /\ connection < MaxSessions
  /\ connection' = connection + 1
  /\ is_connected' = TRUE
  /\ link_up' = TRUE
  /\ sup_pc' = "running"
  /\ sched_pc' = [sched_pc EXCEPT ![connection + 1] = "idle"]
  /\ tick_due' = [tick_due EXCEPT ![connection + 1] = clocked]
  /\ msg_pc' = "acquire"
  /\ drain_pc' = [drain_pc EXCEPT ![connection + 1] = "pop"]
  /\ UNCHANGED <<bufVars, apiVars, wireVars, extVars, schedStruct, msg_cur, sched_due,
                 sched_delta, pending_deltas, clocked, drain_data, obsVars>>

\* connect_to_gateway returns Err; is_connected = false; the reconnect sleep
ConnectFail ==
  /\ sup_pc = "connect" /\ ~LockHeld
  /\ is_connected' = FALSE
  /\ UNCHANGED <<bufVars, apiVars, wireVars, extVars, schedStruct, connection, link_up, supVars,
                 msgVars, schedVars, drainVars, obsVars>>

\* run_connected returns once the read loop has ended; is_connected = false; the sleep
RunConnectedReturns ==
  /\ sup_pc = "running" /\ msg_pc = "done"
  /\ is_connected' = FALSE
  /\ sup_pc' = "connect"
  /\ UNCHANGED <<bufVars, apiVars, wireVars, extVars, schedStruct, connection, link_up,
                 msgVars, schedVars, drainVars, obsVars>>

(* ------------------------------ Gateway -------------------------------- *)
\* the socket of the current connection breaks
LinkDown ==
  /\ link_up
  /\ link_up' = FALSE
  /\ UNCHANGED <<bufVars, apiVars, wireVars, extVars, schedStruct, connection, is_connected, supVars, msgVars,
                 schedVars, drainVars, obsVars>>

(* --------------------- run_connected: read loop ------------------------ *)
\* a task is queued for the state lock
LockWaiters == \E g \in Gens : sched_pc[g] = "send" \/ drain_pc[g] = "send"

\* state.write() of the read loop; tokio's RwLock is FIFO, so the tasks already queued
\* for the lock take it before the loop gets it back
MsgAcquire ==
  /\ msg_pc = "acquire" /\ ~LockWaiters
  /\ msg_pc' = IF connection # 0 THEN "recv" ELSE "done"
  /\ UNCHANGED <<bufVars, apiVars, wireVars, extVars, schedStruct, linkVars, supVars, msg_cur, schedVars,
                 drainVars, obsVars>>

\* receive_message returns Ok(Some(msg)); the lock is released
MsgRecv(m) ==
  /\ msg_pc = "recv" /\ link_up
  /\ msg_cur' = m
  /\ msg_pc' = "handle"
  /\ UNCHANGED <<bufVars, apiVars, wireVars, extVars, schedStruct, linkVars, supVars, schedVars, drainVars, obsVars>>

\* receive_message returns Ok(None) or Err; the loop breaks
MsgClosed ==
  /\ msg_pc = "recv" /\ ~link_up
  /\ msg_pc' = "done"
  /\ UNCHANGED <<bufVars, apiVars, wireVars, extVars, schedStruct, linkVars, supVars, msg_cur, schedVars,
                 drainVars, obsVars>>

\* handle_gateway_message, GatewayMessage::Snapshot
HandleSnapshot ==
  /\ msg_pc = "handle" /\ msg_cur.type = "snapshot"
  /\ snapshot' = update_snapshot(snapshot, msg_cur.checks)
  /\ LET replaced == snapshot = Some(S1) /\ snapshot' = Some(S2) IN
       /\ replaced_at' = IF replaced THEN now ELSE replaced_at
       /\ c3_waiting' = IF replaced THEN TRUE
                        ELSE IF snapshot' # Some(S2) THEN FALSE ELSE c3_waiting
  /\ msg_cur' = NoMsg
  /\ msg_pc' = "acquire"
  /\ UNCHANGED <<bufVars, apiVars, wireVars, extVars, last_status, last_sent, linkVars, supVars, schedVars,
                 drainVars, now, delta_seq, delivered, evicted, last_start, prev_status>>

(* --------------------- CheckScheduler::run ----------------------------- *)
AfterCheck(due) == IF due = <<>> THEN "idle" ELSE "exec"

\* ticker.tick(): get_due_checks
SchedTick(g) ==
  /\ sched_pc[g] = "idle"
  /\ clocked => tick_due[g]
  /\ LET due == get_due_checks(snapshot, last_sent, now) IN
       /\ sched_due' = [sched_due EXCEPT ![g] = due]
       /\ sched_pc' = [sched_pc EXCEPT ![g] = AfterCheck(due)]
  /\ tick_due' = [tick_due EXCEPT ![g] = FALSE]
  /\ UNCHANGED <<bufVars, apiVars, wireVars, extVars, schedStruct, linkVars, supVars, msgVars, sched_delta,
                 pending_deltas, clocked, drainVars, obsVars>>

\* execute_check and process_result of the next due check, then the routing decision
SchedExec(g, status) ==
  /\ sched_pc[g] = "exec"
  /\ delta_seq < (IF clocked THEN MaxTimedDeltas ELSE MaxDeltas)
  /\ LET key == Head(sched_due[g])
         delta == process_result(key, status, delta_seq + 1, prev_status[key] # status)
         rest == Tail(sched_due[g])
     IN
       /\ delta_seq' = delta_seq + 1
       /\ last_start' = [last_start EXCEPT ![key] = now]
       /\ prev_status' = [prev_status EXCEPT ![key] = status]
       /\ c3_waiting' = IF key = "c3" THEN FALSE ELSE c3_waiting
       /\ sched_due' = [sched_due EXCEPT ![g] = rest]
       /\ IF status_changed(last_status, key, status)
          THEN /\ sched_delta' = [sched_delta EXCEPT ![g] = delta]
               /\ sched_pc' = [sched_pc EXCEPT ![g] = "send"]
               /\ UNCHANGED pending_deltas
          ELSE /\ pending_deltas' = [pending_deltas EXCEPT ![g] = Append(@, delta)]
               /\ sched_pc' = [sched_pc EXCEPT ![g] = AfterCheck(rest)]
               /\ UNCHANGED sched_delta
  /\ UNCHANGED <<bufVars, apiVars, wireVars, extVars, schedStruct, linkVars, supVars, msgVars,
                 tick_due, clocked, drainVars, now, delivered, evicted, replaced_at>>

\* the fast path: state.write(), send_status_delta, buffer.push on failure
SchedSend(g) ==
  /\ sched_pc[g] = "send" /\ ~LockHeld
  /\ send_or_buffer(send_status_delta(sched_delta[g]), <<sched_delta[g]>>, "delta")
  /\ sched_delta' = [sched_delta EXCEPT ![g] = None]
  /\ sched_pc' = [sched_pc EXCEPT ![g] = AfterCheck(sched_due[g])]
  /\ UNCHANGED <<apiVars, extVars, schedStruct, linkVars, supVars, msgVars, sched_due,
                 pending_deltas, tick_due, clocked, drainVars, now, delta_seq,
                 last_start, prev_status, replaced_at, c3_waiting>>

\* batch_ticker.tick(); its period is not modelled, it may fire whenever the loop selects
BatchTick(g) ==
  /\ sched_pc[g] = "idle"
  /\ pending_deltas[g] # <<>> => ~LockHeld
  /\ IF pending_deltas[g] # <<>>
     THEN send_or_buffer(send_status_batch(pending_deltas[g]), pending_deltas[g], "batch")
     ELSE UNCHANGED <<bufVars, delivered, evicted, wireVars>>
  /\ batches' = IF pending_deltas[g] # <<>> /\ send_ok
                THEN batches \cup {pending_deltas[g]} ELSE batches
  /\ pending_deltas' = [pending_deltas EXCEPT ![g] = <<>>]
  /\ UNCHANGED <<apiVars, gwVars, cmdVars, procVars, schedStruct, linkVars, supVars, msgVars, sched_pc,
                 sched_due, sched_delta, tick_due, clocked, drainVars, now, delta_seq,
                 last_start, prev_status, replaced_at, c3_waiting>>

(* ------------------- run_connected: buffer drain loop ------------------ *)
\* the sleep has ended (or the inner loop continues): state.write();
\* if !is_connected break; state.buffer.pop()
DrainPop(g) ==
  /\ drain_pc[g] = "pop" /\ ~LockHeld
  /\ is_connected /\ queue # <<>>
  /\ drain_data' = [drain_data EXCEPT ![g] = pop_item(queue)]
  /\ queue' = pop_queue(queue)
  /\ file' = save_to_file(queue', file_path, file, TRUE)
  /\ drain_pc' = [drain_pc EXCEPT ![g] = "send"]
  /\ UNCHANGED <<max_size, file_path>>
  /\ UNCHANGED <<apiVars, wireVars, extVars, schedStruct, linkVars, supVars, msgVars, schedVars, obsVars>>

\* state.write(); send_message(&data), putting data back on failure
DrainSend(g) ==
  /\ drain_pc[g] = "send" /\ ~LockHeld
  /\ send_or_buffer(send_message(drain_data[g]), <<drain_data[g]>>, "drain")
  /\ drain_pc' = [drain_pc EXCEPT ![g] = "pop"]
  /\ drain_data' = [drain_data EXCEPT ![g] = None]
  /\ UNCHANGED <<apiVars, extVars, schedStruct, linkVars, supVars, msgVars, schedVars, now, delta_seq,
                 last_start, prev_status, replaced_at, c3_waiting>>

(* ------------------------------- time ---------------------------------- *)
\* no scheduler loop has a step it can take without waiting
SchedulersWait ==
  \A g \in Gens :
    \/ sched_pc[g] = "off"
    \/ sched_pc[g] = "idle" /\ ~tick_due[g]
    \/ sched_pc[g] = "send" /\ LockHeld

\* one second passes: ticker fires in every running loop
ClockAdvance ==
  /\ clocked
  /\ now < MaxTime
  /\ SchedulersWait
  /\ now' = now + 1
  /\ tick_due' = [g \in Gens |-> sched_pc[g] # "off"]
  /\ UNCHANGED <<bufVars, apiVars, wireVars, extVars, schedStruct, linkVars, supVars, msgVars, sched_pc,
                 sched_due, sched_delta, pending_deltas, clocked, drainVars,
                 delta_seq, delivered, evicted, last_start, prev_status,
                 replaced_at, c3_waiting>>

(* --------------------------- Spec: the agent --------------------------- *)
GatewayMessages ==
  {[type |-> "snapshot", checks |-> S1], [type |-> "snapshot", checks |-> S2]}

\* AgentState::new(config) and CheckScheduler::new()
AgentInit ==
  /\ queue = <<>>
  /\ max_size \in 1..MaxCap
  /\ file_path = FALSE
  /\ file = <<>>
  /\ op = "agent_new" /\ ret = None /\ n_pushed = 0 /\ n_base = 0 /\ only_pushed = TRUE
  /\ by_agent = TRUE
  /\ AgentIdle

Init == AgentInit /\ clocked = FALSE /\ tracing = FALSE
TimedInit == AgentInit /\ clocked = TRUE /\ tracing = FALSE
\* the agent with the history of its buffer and WebSocket
WireInit == AgentInit /\ clocked = FALSE /\ tracing = TRUE

AgentStep ==
  \/ ConnectOk
  \/ ConnectFail
  \/ RunConnectedReturns
  \/ MsgAcquire
  \/ MsgClosed
  \/ HandleSnapshot
  \/ \E g \in Gens : SchedTick(g)
  \/ \E g \in Gens : \E status \in Statuses : SchedExec(g, status)
  \/ \E g \in Gens : SchedSend(g)
  \/ \E g \in Gens : BatchTick(g)
  \/ \E g \in Gens : DrainPop(g)
  \/ \E g \in Gens : DrainSend(g)

\* the agent with its tickers firing at any time
Next ==
  \/ AgentStep
  \/ LinkDown
  \/ \E m \in GatewayMessages : MsgRecv(m)

Spec == Init /\ [][Next]_vars
WireSpec == WireInit /\ [][Next]_vars

\* the agent on a link that stays up, with the clock
TimedNext ==
  \/ ConnectOk
  \/ MsgAcquire
  \/ HandleSnapshot
  \/ \E g \in Gens : SchedTick(g)
  \/ \E g \in Gens : \E status \in Statuses : SchedExec(g, status)
  \/ \E g \in Gens : SchedSend(g)
  \/ \E g \in Gens : BatchTick(g)
  \/ \E m \in GatewayMessages : MsgRecv(m)
  \/ ClockAdvance

TimedSpec == TimedInit /\ [][TimedNext]_vars

\* the agent with weak fairness of every task's steps and strong fairness of the steps
\* that wait for the state lock (the runtime polls every ready task, the lock is FIFO);
\* the Gateway and the link are under no obligation
LiveSpec ==
  /\ Init /\ [][Next]_vars
  /\ WF_vars(ConnectOk \/ RunConnectedReturns)
  /\ WF_vars(MsgAcquire \/ MsgClosed \/ HandleSnapshot)
  /\ \A g \in Gens : WF_vars(SchedTick(g) \/ \E status \in Statuses : SchedExec(g, status))
  /\ \A g \in Gens : SF_vars(SchedSend(g))
  /\ \A g \in Gens : SF_vars(DrainPop(g) \/ DrainSend(g))

(* ------------- SchedSpec: the scheduler from any struct state ---------- *)
\* the partial maps from check keys to the values of V
KeyMaps(V) == UNION {[D -> V] : D \in SUBSET Keys}

\* scheduler.update_snapshot(snapshot)
UpdateSnapshot(checks) ==
  /\ snapshot' = update_snapshot(snapshot, checks)
  /\ UNCHANGED <<bufVars, apiVars, wireVars, extVars, last_status, last_sent, linkVars, supVars,
                 msgVars, schedVars, drainVars, obsVars>>

\* CheckScheduler::run on a scheduler whose snapshot and maps hold any values: no code of
\* the repository inserts into last_status or last_sent, so the branches that read an
\* entry are reached from such a state only
SchedInit ==
  /\ queue = <<>>
  /\ max_size \in 1..MaxCap
  /\ file_path = FALSE
  /\ file = <<>>
  /\ op = "agent_new" /\ ret = None /\ n_pushed = 0 /\ n_base = 0 /\ only_pushed = TRUE
  /\ by_agent = TRUE
  /\ ExtIdle /\ tracing = FALSE
  /\ snapshot \in {Some(S1), Some(S2)}
  /\ last_status \in KeyMaps(Statuses)
  /\ last_sent \in KeyMaps({0})
  /\ connection \in {0, 1}
  /\ is_connected = (connection # 0)
  /\ link_up = (connection # 0)
  /\ sup_pc = "running"
  /\ msg_pc = "off" /\ msg_cur = NoMsg
  /\ sched_pc = [g \in Gens |-> IF g = 1 THEN "idle" ELSE "off"]
  /\ sched_due = [g \in Gens |-> <<>>]
  /\ sched_delta = [g \in Gens |-> None]
  /\ pending_deltas = [g \in Gens |-> <<>>]
  /\ tick_due = [g \in Gens |-> FALSE]
  /\ clocked = FALSE
  /\ drain_pc = [g \in Gens |-> "off"]
  /\ drain_data = [g \in Gens |-> None]
  /\ now = 0 /\ delta_seq = 0 /\ delivered = {} /\ evicted = {}
  /\ last_start = [k \in Keys |-> -1]
  /\ prev_status = [k \in Keys |-> IF k \in DOMAIN last_status THEN last_status[k] ELSE "none"]
  /\ replaced_at = -1 /\ c3_waiting = FALSE

SchedNext ==
  \/ \E checks \in {S1, S2} : UpdateSnapshot(checks)
  \/ \E g \in Gens : SchedTick(g)
  \/ \E g \in Gens : \E status \in Statuses : SchedExec(g, status)
  \/ \E g \in Gens : SchedSend(g)
  \/ \E g \in Gens : BatchTick(g)
  \/ LinkDown

SchedSpec == SchedInit /\ [][SchedNext]_vars

\* what a check that does not succeed comes to: a shell command that exits non-zero, cannot
\* be run or exceeds timeout_secs, a config without "command", a native name
\* execute_native does not know, a native check that returns Err, and a native check that
\* panics (check_tcp_port: addr.parse().unwrap() on a host that is no IP address)
FailureOutcomes ==
  {"exit_nonzero", "failed_to_execute", "timed_out", "missing_command", "unknown_native",
   "native_err", "panic"}
\* execute_check: Ok(NativeResult) with its status, Err(text), or no return at all
execute_check(outcome) ==
  CASE outcome \in {"exit_nonzero", "failed_to_execute", "timed_out"} ->
         [returns |-> TRUE, ok |-> TRUE, status |-> "error"]
    [] outcome \in {"missing_command", "unknown_native", "native_err"} ->
         [returns |-> TRUE, ok |-> FALSE, status |-> "none"]
    [] outcome = "panic" -> [returns |-> FALSE, ok |-> FALSE, status |-> "none"]
\* process_result: the status of the delta
result_status(r) == IF r.ok THEN r.status ELSE "error"

\* a due check fails: its delta goes the way of any delta; a panic unwinds the scheduler
\* task
SchedExecFails(g, outcome) ==
  LET r == execute_check(outcome) IN
    IF r.returns
    THEN SchedExec(g, result_status(r))
    ELSE /\ sched_pc[g] = "exec"
         /\ sched_pc' = [sched_pc EXCEPT ![g] = "off"]
         /\ UNCHANGED <<bufVars, apiVars, wireVars, extVars, schedStruct, linkVars, supVars,
                        msgVars, sched_due, sched_delta, pending_deltas, tick_due, clocked,
                        drainVars, obsVars>>

CheckNext ==
  \/ SchedNext
  \/ \E g \in Gens : \E outcome \in FailureOutcomes : SchedExecFails(g, outcome)

\* the scheduler with checks that fail
CheckSpec == SchedInit /\ [][CheckNext]_vars

(* ---------------- handle_gateway_message: commands --------------------- *)
is_async_never(t) == FALSE
is_async(t) == t \in AsyncTypes

\* error_msg.contains("timed out"), over the messages execute_command fails with
ErrorMessages ==
  {"Missing action name", "Missing command in params", "First fork failed",
   "Failed to spawn command", "Failed to wait for command",
   "Command timed out after timeout_secs seconds",
   "Unknown command type: other", "Unknown command type: timed out"}
contains_never(msg) == FALSE
\* the messages that have "timed out" in them
contains_timed_out(msg) ==
  msg \in {"Command timed out after timeout_secs seconds", "Unknown command type: timed out"}
\* anyhow!("Unknown command type: {}", cmd.command_type)
unknown_command_type(t) ==
  IF t = "timed out" THEN "Unknown command type: timed out" ELSE "Unknown command type: other"

\* Uuid::new_v4() of the n-th command: a value no command id has
new_v4(n) == MaxCmds + n

\* the status of the terminal response built from exec_result
response_status(r) ==
  IF r.ok THEN (IF r.exit_code = 0 THEN "completed" ELSE "failed")
  ELSE (IF contains_timed_out(r.error) THEN "timeout" ELSE "failed")

\* entries of cmd_log: a CommandResponse handed to send_command_response (sent: it
\* returned Ok; truth: what became of the command, which the agent does not see), or a step of the detachment ("fork": the first fork, "returned":
\* spawn_detached returned Ok)
Response(c, status, r, sent) ==
  [ev |-> "response", id |-> c.id, async |-> c.command_type \in AsyncTypes,
   sync |-> c.command_type \in SyncTypes, status |-> status,
   has_result |-> r.ok, exit_code |-> r.exit_code, sent |-> sent, truth |-> r.truth,
   job_id |-> c.id]
LogStep(ev, c) ==
  [ev |-> ev, id |-> c.id, async |-> c.command_type \in AsyncTypes,
   sync |-> c.command_type \in SyncTypes, status |-> "none",
   has_result |-> FALSE, exit_code |-> 0, sent |-> FALSE, truth |-> "none",
   job_id |-> new_v4(c.id)]

\* the processes a fork, setsid and signal(SIGHUP, SigIgn) leave
fork_child(p, who, pc) ==
  [st |-> "running", pc |-> pc, parent |-> who, sid |-> p.sid, sighup |-> p.sighup]
\* a setsid that leaves the process in its parent's session
setsid_skipped(p) == p
setsid(p) == [p EXCEPT !.sid = "own"]
ignore_sighup(p) == [p EXCEPT !.sighup = "ignore"]

\* receive_message returns Ok(Some(Command)); the lock is released
MsgRecvCommand(c) ==
  /\ msg_pc = "recv" /\ link_up
  /\ cmd_count < MaxCmds /\ c.id = cmd_count + 1
  /\ cmd_count' = c.id
  /\ cmd_cur' = c
  /\ msg_cur' = [type |-> "command", checks |-> <<>>]
  /\ msg_pc' = "cmd_started"
  /\ UNCHANGED <<bufVars, apiVars, wireVars, gwVars, batches, cmd_result, cmd_log, procVars, schedStruct,
                 linkVars, supVars, schedVars, drainVars, obsVars>>

\* the handler returns (Ok, or Err through `?`) and the read loop goes on
HandlerReturns ==
  /\ msg_pc' = "acquire"
  /\ msg_cur' = NoMsg
  /\ cmd_cur' = NoCmd
  /\ cmd_result' = NoResult

\* state.read() for agent_id; for an async command the "started" response
CmdStarted ==
  /\ msg_pc = "cmd_started"
  /\ IF is_async(cmd_cur.command_type) /\ connection # 0
     THEN /\ cmd_log' = Append(cmd_log, Response(cmd_cur, "started", NoResult, send_ok))
          /\ IF send_ok
             THEN /\ msg_pc' = "cmd_exec"
                  /\ UNCHANGED <<msg_cur, cmd_cur, cmd_result>>
             ELSE HandlerReturns
     ELSE /\ msg_pc' = "cmd_exec"
          /\ UNCHANGED <<msg_cur, cmd_cur, cmd_result, cmd_log>>
  /\ UNCHANGED <<bufVars, apiVars, wireVars, gwVars, batches, cmd_count, procVars, schedStruct, linkVars,
                 supVars, schedVars, drainVars, obsVars>>

\* execute_command -> execute_async_command -> spawn_detached up to the first fork
CmdExecAsync(fork_ok) ==
  /\ msg_pc = "cmd_exec" /\ is_async(cmd_cur.command_type)
  /\ IF ~cmd_cur.has_command
     THEN /\ cmd_result' = Err("Missing command in params", "not_executed")
          /\ msg_pc' = "cmd_final"
          /\ UNCHANGED <<cmd_log, inter>>
     ELSE IF fork_ok
     THEN /\ inter' = [inter EXCEPT ![cmd_cur.id] = fork_child(AgentProc, "agent", "setsid")]
          /\ cmd_log' = Append(cmd_log, LogStep("fork", cmd_cur))
          /\ msg_pc' = "cmd_wait"
          /\ UNCHANGED cmd_result
     ELSE /\ cmd_result' = Err("First fork failed", "not_executed")
          /\ msg_pc' = "cmd_final"
          /\ UNCHANGED <<cmd_log, inter>>
  /\ UNCHANGED <<bufVars, apiVars, wireVars, gwVars, batches, cmd_cur, cmd_count, agent_alive, job, schedStruct,
                 linkVars, supVars, msg_cur, schedVars, drainVars, obsVars>>

\* waitpid(child) returns: the intermediate child is reaped, spawn_detached returns Ok
\* and execute_async_command returns exit_code 0
Waitpid ==
  /\ msg_pc = "cmd_wait" /\ inter[cmd_cur.id].st = "zombie"
  /\ inter' = [inter EXCEPT ![cmd_cur.id].st = "reaped"]
  /\ cmd_log' = Append(cmd_log, LogStep("returned", cmd_cur))
  /\ cmd_result' = Ok(0, "detached")
  /\ msg_pc' = "cmd_final"
  /\ UNCHANGED <<bufVars, apiVars, wireVars, gwVars, batches, cmd_cur, cmd_count, agent_alive, job, schedStruct,
                 linkVars, supVars, msg_cur, schedVars, drainVars, obsVars>>

\* what a sync command can come to once its parameters are there
SyncOutcomes ==
  {"exit_zero", "exit_nonzero", "killed_by_signal", "spawn_error", "wait_error", "timed_out"}

\* execute_command -> execute_sync_command
execute_sync_command(c, outcome) ==
  IF ~c.has_action THEN Err("Missing action name", "not_executed")
  ELSE IF ~c.has_command THEN Err("Missing command in params", "not_executed")
  ELSE CASE outcome = "exit_zero" -> Ok(0, "exit_zero")
         [] outcome = "exit_nonzero" -> Ok(1, "exit_nonzero")
         [] outcome = "killed_by_signal" -> Ok(-1, "exit_nonzero")
         [] outcome = "spawn_error" -> Err("Failed to spawn command", "not_executed")
         [] outcome = "wait_error" -> Err("Failed to wait for command", "wait_failed")
         [] outcome = "timed_out" ->
              Err("Command timed out after timeout_secs seconds", "timed_out")

CmdExecSync(outcome) ==
  /\ msg_pc = "cmd_exec" /\ cmd_cur.command_type \in SyncTypes
  /\ cmd_result' = execute_sync_command(cmd_cur, outcome)
  /\ msg_pc' = "cmd_final"
  /\ UNCHANGED <<bufVars, apiVars, wireVars, gwVars, batches, cmd_cur, cmd_count, cmd_log, procVars,
                 schedStruct, linkVars, supVars, msg_cur, schedVars, drainVars, obsVars>>

\* execute_command, the `_` arm: nothing runs
CmdExecUnknown ==
  /\ msg_pc = "cmd_exec"
  /\ ~is_async(cmd_cur.command_type) /\ cmd_cur.command_type \notin SyncTypes
  /\ cmd_result' = Err(unknown_command_type(cmd_cur.command_type), "not_executed")
  /\ msg_pc' = "cmd_final"
  /\ UNCHANGED <<bufVars, apiVars, wireVars, gwVars, batches, cmd_cur, cmd_count, cmd_log, procVars,
                 schedStruct, linkVars, supVars, msg_cur, schedVars, drainVars, obsVars>>

\* the terminal response: state.write(), send_command_response
CmdFinal ==
  /\ msg_pc = "cmd_final"
  /\ cmd_log' = IF connection # 0
                THEN Append(cmd_log,
                            Response(cmd_cur, response_status(cmd_result), cmd_result, send_ok))
                ELSE cmd_log
  /\ HandlerReturns
  /\ UNCHANGED <<bufVars, apiVars, wireVars, gwVars, batches, cmd_count, procVars, schedStruct, linkVars,
                 supVars, schedVars, drainVars, obsVars>>

(* --------------------- spawn_detached: the children -------------------- *)
ProcFrame ==
  UNCHANGED <<bufVars, apiVars, wireVars, gwVars, batches, cmdVars, agent_alive, schedStruct, linkVars, supVars,
              msgVars, schedVars, drainVars, obsVars>>

\* the intermediate child exits: a zombie until its parent waits; its child goes to init
inter_exits(c) ==
  /\ inter' = [inter EXCEPT ![c].st = "zombie", ![c].pc = "none"]
  /\ job' = IF job[c] # NoProc THEN [job EXCEPT ![c].parent = "init"] ELSE job

\* unistd::setsid(); on Err the child exits with code 1
Setsid(c, ok) ==
  /\ inter[c].st = "running" /\ inter[c].pc = "setsid"
  /\ IF ok
     THEN /\ inter' = [inter EXCEPT ![c] = [setsid(@) EXCEPT !.pc = "signal"]]
          /\ UNCHANGED job
     ELSE inter_exits(c)
  /\ ProcFrame

\* signal(SIGHUP, SigIgn)
SignalIgnore(c) ==
  /\ inter[c].st = "running" /\ inter[c].pc = "signal"
  /\ inter' = [inter EXCEPT ![c] = [ignore_sighup(@) EXCEPT !.pc = "fork"]]
  /\ UNCHANGED job
  /\ ProcFrame

\* the second fork; the intermediate child then exits (code 0, or 1 when the fork failed)
SecondFork(c, ok) ==
  /\ inter[c].st = "running" /\ inter[c].pc = "fork"
  /\ job' = IF ok THEN [job EXCEPT ![c] = fork_child(inter[c], "inter", "setup")] ELSE job
  /\ inter' = [inter EXCEPT ![c].pc = "exit"]
  /\ ProcFrame

\* std::process::exit in the intermediate child
InterExit(c) ==
  /\ inter[c].st = "running" /\ inter[c].pc = "exit"
  /\ inter_exits(c)
  /\ ProcFrame

\* the grandchild: close_all_fds, redirect_std_streams, chdir, umask, switch_user and
\* execvp; on a failure it exits
JobExec(c, ok) ==
  /\ job[c].st = "running" /\ job[c].pc = "setup"
  /\ job' = IF ok THEN [job EXCEPT ![c].pc = "command"]
            ELSE [job EXCEPT ![c].st = "exited", ![c].pc = "none"]
  /\ UNCHANGED inter
  /\ ProcFrame

\* the command of the job ends by itself
JobEnds(c) ==
  /\ job[c].st = "running" /\ job[c].pc = "command"
  /\ job' = [job EXCEPT ![c].st = "exited", ![c].pc = "none"]
  /\ UNCHANGED inter
  /\ ProcFrame

\* SIGHUP reaches p: sent to the agent's session, fatal unless ignored
hit_by_sighup(p) == p.st = "running" /\ p.sid = "agent" /\ p.sighup = "default"

\* the agent is terminated; hangup: by the hangup of its terminal, which sends SIGHUP to
\* its session. Its children are handed to init
AgentKilled(hangup) ==
  /\ agent_alive
  /\ agent_alive' = FALSE
  /\ inter' = [c \in CmdIds |->
                 IF hangup /\ hit_by_sighup(inter[c])
                 THEN [inter[c] EXCEPT !.st = "killed", !.pc = "none", !.parent = "init"]
                 ELSE IF inter[c].st \in {"running", "zombie"}
                 THEN [inter[c] EXCEPT !.parent = "init"]
                 ELSE inter[c]]
  /\ job' = [c \in CmdIds |->
               IF hangup /\ hit_by_sighup(job[c])
               THEN [job[c] EXCEPT !.st = "killed", !.pc = "none"]
               ELSE IF job[c].st = "running" /\ job[c].parent = "agent"
               THEN [job[c] EXCEPT !.parent = "init"]
               ELSE job[c]]
  /\ UNCHANGED <<bufVars, apiVars, wireVars, gwVars, batches, cmdVars, schedStruct, linkVars, supVars,
                 msgVars, schedVars, drainVars, obsVars>>

(* ------------------ CmdSpec: the agent handling commands --------------- *)
CmdAgentStep ==
  \/ ConnectOk
  \/ RunConnectedReturns
  \/ MsgAcquire
  \/ MsgClosed
  \/ \E c \in Commands(cmd_count + 1) : MsgRecvCommand(c)
  \/ CmdStarted
  \/ \E fork_ok \in BOOLEAN : CmdExecAsync(fork_ok)
  \/ Waitpid
  \/ \E outcome \in SyncOutcomes : CmdExecSync(outcome)
  \/ CmdExecUnknown
  \/ CmdFinal

CmdNext ==
  \/ agent_alive /\ CmdAgentStep
  \/ LinkDown
  \/ \E c \in CmdIds : \E ok \in BOOLEAN : Setsid(c, ok)
  \/ \E c \in CmdIds : SignalIgnore(c)
  \/ \E c \in CmdIds : \E ok \in BOOLEAN : SecondFork(c, ok)
  \/ \E c \in CmdIds : InterExit(c)
  \/ \E c \in CmdIds : \E ok \in BOOLEAN : JobExec(c, ok)
  \/ \E c \in CmdIds : JobEnds(c)
  \/ \E hangup \in BOOLEAN : AgentKilled(hangup)

\* the agent receiving commands, its checks and buffer at rest
CmdSpec == Init /\ [][CmdNext]_vars

(* ------------------------- Gateway: registry --------------------------- *)
\* AgentRegistry::count
count(ag) == Cardinality({a \in AgentIds : ag[a].present})

\* a register that keeps the entry an id already has
register_if_absent(ag, id, labels, tx) ==
  IF ag[id].present THEN ag
  ELSE [ag EXCEPT ![id] = [present |-> TRUE, labels |-> labels, tx |-> tx, last_heartbeat |-> gw_now]]

\* AgentRegistry::register: insert under info.id, replacing an entry of that id
register(ag, id, labels, tx) ==
  [ag EXCEPT ![id] = [present |-> TRUE, labels |-> labels, tx |-> tx, last_heartbeat |-> gw_now]]

\* an unregister that leaves the map as it is
unregister_kept(ag, id) == ag

\* AgentRegistry::unregister: remove the entry of agent_id, whoever inserted it
unregister(ag, id) == [ag EXCEPT ![id] = NoAgent]

\* AgentRegistry::heartbeat: last_heartbeat = now, nothing for an absent id
heartbeat(ag, id) == IF ag[id].present THEN [ag EXCEPT ![id].last_heartbeat = gw_now] ELSE ag

\* AgentRegistry::list: the entries of the map
list(ag) == {[id |-> a, labels |-> ag[a].labels] : a \in {b \in AgentIds : ag[b].present}}

\* the closure of find_by_labels: labels.iter().all(|(k, v)| agent.labels.get(k) == Some(v))
matches_keys(agent_labels, labels) == \A k \in DOMAIN labels : k \in DOMAIN agent_labels
matches(agent_labels, labels) ==
  \A k \in DOMAIN labels :
    IF k \in DOMAIN agent_labels THEN agent_labels[k] = labels[k] ELSE FALSE

\* AgentRegistry::find_by_labels; order: the order in which the DashMap is iterated
find_by_labels(ag, labels, order) ==
  LET keep(a) == ag[a].present /\ matches(ag[a].labels, labels) IN
  SelectSeq(order, keep)

\* cmd_rx of session s has not been dropped: handle_agent is still running
receiver_alive(s) == session[s].pc \in {"register", "notify", "loop", "unregister", "notify_disc"}

\* mpsc send: the command joins the queue
enqueue_dropped(q, cmd) == q
enqueue(q, cmd) == Append(q, cmd)

\* the channel of session s holds ChannelCapacity commands
channel_full(s) == Len(cmd_rx[s]) >= ChannelCapacity

\* AgentRegistry::send_command: Ok iff agent_id has an entry whose channel is open; the
\* send takes place once the channel has room
send_command_ok_present(ag, id) == ag[id].present
send_command_ok(ag, id) == ag[id].present /\ receiver_alive(ag[id].tx)
send_command(id, cmd) ==
  IF send_command_ok(agents, id)
  THEN /\ ~channel_full(agents[id].tx)
       /\ cmd_rx' = [cmd_rx EXCEPT ![agents[id].tx] = enqueue(@, cmd)]
       /\ enqueued' = enqueued \cup {[cmd |-> cmd, agent_id |-> id, session |-> agents[id].tx]}
  ELSE UNCHANGED <<cmd_rx, enqueued>>

(* ------------------------ Gateway: handle_agent ------------------------ *)
PubFrame == UNCHANGED <<bufVars, apiVars, wireVars, agentVars, batches, cmdVars, procVars, regVars>>
GwFrame == PubFrame /\ UNCHANGED bridgeVars

\* wait_for_registration returns Some: a text frame holding a register message
is_registration_any(m) == m.type # "none"
is_registration(m) == m.frame = "text" /\ m.type = "register"

\* BackendMessage on the broadcast channel, with the session that sent it
Published(type, s) == [type |-> type, session |-> s, agent_id |-> session[s].first.agent_id]

\* backend_tx.send(msg) for each msg of msgs: every live receiver is handed the message,
\* and without a receiver the send fails and the message is dropped (`let _ =`)
has_receiver == bridge.pc # "start"
backend_tx_send(msgs) ==
  /\ backend_tx' = backend_tx \cup Range(msgs)
  /\ bridge_rx' = IF has_receiver THEN bridge_rx \o msgs ELSE bridge_rx
  /\ pub_log' = IF has_receiver THEN pub_log \o msgs ELSE pub_log
  /\ UNCHANGED <<bridge, backend_frames, backend_in>>

\* the WebSocket upgrade: handle_agent starts
SessionOpen(s) ==
  /\ session[s].pc = "closed"
  /\ session' = [session EXCEPT ![s].pc = "wait"]
  /\ UNCHANGED <<agents, cmd_rx, backend_tx, route, enqueued>>
  /\ GwFrame

\* wait_for_registration returns; m: the first frame, or none within the timeout
WaitForRegistration(s, m) ==
  /\ session[s].pc = "wait"
  /\ session' = [session EXCEPT ![s].first = m,
                                ![s].pc = IF is_registration(m) THEN "register" ELSE "returned"]
  /\ UNCHANGED <<agents, cmd_rx, backend_tx, route, enqueued>>
  /\ GwFrame

\* mpsc::channel and state.registry.register
Register(s) ==
  /\ session[s].pc = "register"
  /\ agents' = register(agents, session[s].first.agent_id, session[s].first.labels, s)
  /\ session' = [session EXCEPT ![s].pc = "notify", ![s].registered = TRUE]
  /\ UNCHANGED <<cmd_rx, backend_tx, route, enqueued>>
  /\ GwFrame

\* backend_tx.send(AgentConnected)
NotifyConnected(s) ==
  /\ session[s].pc = "notify"
  /\ backend_tx_send(<<Published("AgentConnected", s)>>)
  /\ session' = [session EXCEPT ![s].pc = "loop"]
  /\ UNCHANGED <<agents, cmd_rx, route, enqueued>>
  /\ PubFrame

\* the AgentMessages a session receives; deltas: the deltas a status_batch holds
AgentMessages ==
  {[type |-> t, deltas |-> 1] : t \in {"register", "status_delta", "command_response", "pong"}}
  \cup {[type |-> "status_batch", deltas |-> n] : n \in 0..MaxBatch}

\* what handle_agent_message sends on backend_tx for m, in the order of its sends: a
\* status_batch is sent delta by delta
publishes(m) ==
  CASE m.type = "status_delta" -> <<"StatusUpdate">>
    [] m.type = "status_batch" -> [i \in 1..m.deltas |-> "StatusUpdate"]
    [] m.type = "command_response" -> <<"CommandResponse">>
    [] OTHER -> <<>>

\* the messages of agents that rx was handed
agent_published ==
  Cardinality({i \in 1..Len(pub_log) : pub_log[i].type \in {"StatusUpdate", "CommandResponse"}})

\* the loop receives a text or binary frame: handle_agent_message
HandleAgentMessage(s, m) ==
  /\ session[s].pc = "loop"
  /\ agent_published < MaxPublished
  /\ backend_tx_send([i \in 1..Len(publishes(m)) |-> Published(publishes(m)[i], s)])
  /\ agents' = IF m.type = "pong" THEN heartbeat(agents, session[s].first.agent_id)
                ELSE agents
  /\ UNCHANGED <<session, cmd_rx, route, enqueued>>
  /\ PubFrame

\* the loop takes a command from cmd_rx and sends it on the socket; a failed send breaks
ForwardCommand(s, ok) ==
  /\ session[s].pc = "loop" /\ cmd_rx[s] # <<>>
  /\ cmd_rx' = [cmd_rx EXCEPT ![s] = Tail(@)]
  /\ session' = [session EXCEPT ![s].pc = IF ok THEN "loop" ELSE "unregister"]
  /\ UNCHANGED <<agents, backend_tx, route, enqueued>>
  /\ GwFrame

\* the loop breaks: a close frame, a socket error or the end of the stream
SessionBreak(s) ==
  /\ session[s].pc = "loop"
  /\ session' = [session EXCEPT ![s].pc = "unregister"]
  /\ UNCHANGED <<agents, cmd_rx, backend_tx, route, enqueued>>
  /\ GwFrame

\* cleanup: state.registry.unregister(&agent_id)
Unregister(s) ==
  /\ session[s].pc = "unregister"
  /\ agents' = unregister(agents, session[s].first.agent_id)
  /\ session' = [session EXCEPT ![s].pc = "notify_disc"]
  /\ UNCHANGED <<cmd_rx, backend_tx, route, enqueued>>
  /\ GwFrame

\* backend_tx.send(AgentDisconnected); handle_agent returns and cmd_rx is dropped
NotifyDisconnected(s) ==
  /\ session[s].pc = "notify_disc"
  /\ backend_tx_send(<<Published("AgentDisconnected", s)>>)
  /\ session' = [session EXCEPT ![s].pc = "returned"]
  /\ cmd_rx' = [cmd_rx EXCEPT ![s] = <<>>]
  /\ UNCHANGED <<agents, route, enqueued>>
  /\ PubFrame

(* -------------------- Gateway: handle_backend_message ------------------ *)
\* a Command with agent_id: send_command to that agent
CommandToAgent(id) ==
  /\ route.pc = "idle" /\ route.cmd < MaxGwCmds
  /\ route' = [pc |-> "idle", by |-> "agent_id", cmd |-> route.cmd + 1, labels |-> EmptyMap,
               found |-> <<id>>,
               results |-> <<[agent_id |-> id, ok |-> send_command_ok(agents, id)]>>]
  /\ send_command(id, route.cmd + 1)
  /\ UNCHANGED <<agents, session, backend_tx>>
  /\ GwFrame

\* a Command with labels: send_command_to_labels starts with find_by_labels
CommandToLabels(labels, order) ==
  /\ route.pc = "idle" /\ route.cmd < MaxGwCmds
  /\ LET found == find_by_labels(agents, labels, order) IN
       route' = [pc |-> IF found = <<>> THEN "idle" ELSE "send", by |-> "labels",
                 cmd |-> route.cmd + 1, labels |-> labels, found |-> found, results |-> <<>>]
  /\ UNCHANGED <<agents, session, cmd_rx, backend_tx, enqueued>>
  /\ GwFrame

\* send_command_to_labels: send_command to the next agent found, and its result
SendToNext ==
  /\ route.pc = "send"
  /\ LET id == route.found[Len(route.results) + 1] IN
       /\ send_command(id, route.cmd)
       /\ route' = [route EXCEPT
                      !.results = Append(@, [agent_id |-> id, ok |-> send_command_ok(agents, id)]),
                      !.pc = IF Len(route.results) + 1 = Len(route.found) THEN "idle" ELSE "send"]
  /\ UNCHANGED <<agents, session, backend_tx>>
  /\ GwFrame

(* ---------------------- RegSpec: the registry's API -------------------- *)

\* `max_age_secs as i64`: the unsigned value read as a signed one of the same width
\* (u64 and i64 are AgeWidth bits wide here). Values whose Duration or whose cutoff chrono
\* cannot represent make the call panic before it removes anything; they are not drawn.
as_i64(x) == IF x < 2^(AgeWidth - 1) THEN x ELSE x - 2^AgeWidth

\* cleanup_stale's filter: last_heartbeat < cutoff, cutoff = now - seconds(max_age_secs as i64)
stale(ag, max_age_secs) ==
  {a \in AgentIds : ag[a].present /\ ag[a].last_heartbeat < gw_now - as_i64(max_age_secs)}

\* AgentRegistry::cleanup_stale: unregister every stale id
cleanup_stale(ag, max_age_secs) ==
  [a \in AgentIds |-> IF a \in stale(ag, max_age_secs) THEN unregister(ag, a)[a] ELSE ag[a]]

\* the call that is made next and what it returned
Call(name, id, ok, pc) ==
  [op |-> name, id |-> id, ok |-> ok, pc |-> pc, n |-> reg_call.n + 1, age |-> 0,
   taken |-> reg_call.taken, same_shard |-> reg_call.same_shard, waiting |-> reg_call.waiting]
CanCall == reg_call.pc = "returned" /\ reg_call.n < MaxRegCalls

RegFrame == UNCHANGED <<bufVars, apiVars, wireVars, agentVars, batches, cmdVars, procVars, bridgeVars>>

RegisterCall(id, labels, tx) ==
  /\ CanCall
  /\ agents' = register(agents, id, labels, tx)
  /\ reg_call' = Call("register", id, TRUE, "returned")
  /\ UNCHANGED <<session, cmd_rx, backend_tx, route, enqueued, gw_now>>
  /\ RegFrame

UnregisterCall(id) ==
  /\ CanCall
  /\ agents' = unregister(agents, id)
  /\ reg_call' = Call("unregister", id, TRUE, "returned")
  /\ UNCHANGED <<session, cmd_rx, backend_tx, route, enqueued, gw_now>>
  /\ RegFrame

HeartbeatCall(id) ==
  /\ CanCall
  /\ agents' = heartbeat(agents, id)
  /\ reg_call' = Call("heartbeat", id, TRUE, "returned")
  /\ UNCHANGED <<session, cmd_rx, backend_tx, route, enqueued, gw_now>>
  /\ RegFrame

\* max_age_secs is kept in id's place: the call names no id
CleanupStaleCall(max_age_secs) ==
  /\ CanCall
  /\ agents' = cleanup_stale(agents, max_age_secs)
  /\ reg_call' = [Call("cleanup_stale", "A1", TRUE, "returned") EXCEPT !.age = max_age_secs]
  /\ UNCHANGED <<session, cmd_rx, backend_tx, route, enqueued, gw_now>>
  /\ RegFrame

\* send_command as handle_backend_message calls it; tx.send(command).await waits while
\* the channel is full
SendCommandCall(id) ==
  /\ CanCall
  /\ IF send_command_ok(agents, id) /\ channel_full(agents[id].tx)
     THEN /\ reg_call' = Call("send_command", id, FALSE, "blocked")
          /\ UNCHANGED <<cmd_rx, enqueued>>
     ELSE /\ reg_call' = Call("send_command", id, send_command_ok(agents, id), "returned")
          /\ send_command(id, 1)
  /\ UNCHANGED <<agents, session, backend_tx, route, gw_now>>
  /\ RegFrame

\* the waiting send goes on: the channel has room, or its receiver was dropped
SendCommandResumes ==
  /\ reg_call.pc = "blocked"
  /\ LET id == reg_call.id IN
       /\ ~channel_full(agents[id].tx) \/ ~receiver_alive(agents[id].tx)
       /\ reg_call' = [reg_call EXCEPT !.ok = send_command_ok(agents, id), !.pc = "returned"]
       /\ send_command(id, 1)
  /\ UNCHANGED <<agents, session, backend_tx, route, gw_now>>
  /\ RegFrame

\* send_command keeps the Ref of self.agents.get(agent_id), a read lock of the shard of
\* agent_id, across tx.send(command).await
ref_held(id) == reg_call.pc = "blocked" /\ (reg_call.id = id \/ reg_call.same_shard)
\* the task of session s is inside get_mut or remove, waiting for the shard's write lock
lock_wait(s) == \E w \in reg_call.waiting : w.session = s
Waiter(s, name, id) == [session |-> s, op |-> name, id |-> id]

\* the session of a channel takes a command from it
ReceiverRecv(s) ==
  /\ session[s].pc = "loop" /\ cmd_rx[s] # <<>> /\ ~lock_wait(s)
  /\ reg_call.taken < MaxRegRecv
  /\ cmd_rx' = [cmd_rx EXCEPT ![s] = Tail(@)]
  /\ reg_call' = [reg_call EXCEPT !.taken = @ + 1]
  /\ UNCHANGED <<agents, session, backend_tx, route, enqueued, gw_now>>
  /\ RegFrame

\* the session of a channel returns: the receiver is dropped
ReceiverDropped(s) ==
  /\ session[s].pc = "loop" /\ ~lock_wait(s)
  /\ session' = [session EXCEPT ![s].pc = "returned"]
  /\ cmd_rx' = [cmd_rx EXCEPT ![s] = <<>>]
  /\ UNCHANGED <<agents, backend_tx, route, enqueued, regVars>>
  /\ RegFrame

\* the session of agent id gets a Pong: registry.heartbeat(&agent_id), get_mut
SessionHeartbeat(s, id) ==
  /\ session[s].pc = "loop" /\ ~lock_wait(s)
  /\ agents[id].present /\ agents[id].tx = s
  /\ IF ref_held(id)
     THEN /\ reg_call' = [reg_call EXCEPT !.waiting = @ \cup {Waiter(s, "heartbeat", id)}]
          /\ UNCHANGED agents
     ELSE /\ agents' = heartbeat(agents, id)
          /\ UNCHANGED reg_call
  /\ UNCHANGED <<session, cmd_rx, backend_tx, route, enqueued, gw_now>>
  /\ RegFrame

\* the loop of the session of agent id breaks: registry.unregister(&agent_id), remove,
\* then handle_agent returns and the receiver is dropped
SessionCleanup(s, id) ==
  /\ session[s].pc = "loop" /\ ~lock_wait(s)
  /\ agents[id].present /\ agents[id].tx = s
  /\ IF ref_held(id)
     THEN /\ reg_call' = [reg_call EXCEPT !.waiting = @ \cup {Waiter(s, "unregister", id)}]
          /\ UNCHANGED <<agents, session, cmd_rx>>
     ELSE /\ agents' = unregister(agents, id)
          /\ session' = [session EXCEPT ![s].pc = "returned"]
          /\ cmd_rx' = [cmd_rx EXCEPT ![s] = <<>>]
          /\ UNCHANGED reg_call
  /\ UNCHANGED <<backend_tx, route, enqueued, gw_now>>
  /\ RegFrame

\* the Ref was dropped: the waiting call of a session takes the write lock and returns
LockGranted(w) ==
  /\ w \in reg_call.waiting /\ ~ref_held(w.id)
  /\ reg_call' = [reg_call EXCEPT !.waiting = @ \ {w}]
  /\ IF w.op = "heartbeat"
     THEN /\ agents' = heartbeat(agents, w.id)
          /\ UNCHANGED <<session, cmd_rx>>
     ELSE /\ agents' = unregister(agents, w.id)
          /\ session' = [session EXCEPT ![w.session].pc = "returned"]
          /\ cmd_rx' = [cmd_rx EXCEPT ![w.session] = <<>>]
  /\ UNCHANGED <<backend_tx, route, enqueued, gw_now>>
  /\ RegFrame

\* a second passes
GwTick ==
  /\ gw_now < MaxGwTime
  /\ gw_now' = gw_now + 1
  /\ UNCHANGED <<agents, session, cmd_rx, backend_tx, route, enqueued, reg_call>>
  /\ RegFrame

\* the entries a registry can hold and the channels they point to
RegEntries ==
  {NoAgent} \cup
  {[present |-> TRUE, labels |-> [role |-> "db"], tx |-> t, last_heartbeat |-> h] :
     t \in GwSessions, h \in 0..MaxGwTime}
RegSessions ==
  {[pc |-> pc, first |-> NoFrame, registered |-> pc = "loop"] : pc \in {"loop", "returned"}}

RegState ==
  /\ queue = <<>> /\ max_size = 1 /\ file_path = FALSE /\ file = <<>>
  /\ op = "agent_new" /\ ret = None /\ n_pushed = 0 /\ n_base = 0 /\ only_pushed = TRUE
  /\ by_agent = TRUE
  /\ AgentRest /\ clocked = FALSE
  /\ batches = {}
  /\ cmd_cur = NoCmd /\ cmd_result = NoResult /\ cmd_count = 0 /\ cmd_log = <<>>
  /\ agent_alive = TRUE
  /\ inter = [c \in CmdIds |-> NoProc]
  /\ job = [c \in CmdIds |-> NoProc]
  /\ gw_now \in 0..MaxGwTime
  /\ agents \in [AgentIds -> RegEntries]
  /\ \A a \in AgentIds : agents[a].last_heartbeat <= gw_now
  /\ session \in [GwSessions -> RegSessions]
  /\ cmd_rx \in [GwSessions -> {<<>>, FullQueue}]
  /\ \A s \in GwSessions : session[s].pc = "returned" => cmd_rx[s] = <<>>
  /\ backend_tx = {} /\ route = NoRoute /\ enqueued = {}
  /\ BridgeIdle
  /\ tracing = FALSE /\ wire = <<>>

RegInit == RegState /\ reg_call = NoCall

RegNext ==
  \/ \E id \in AgentIds : \E tx \in GwSessions : RegisterCall(id, [role |-> "db"], tx)
  \/ \E id \in AgentIds : UnregisterCall(id)
  \/ \E id \in AgentIds : HeartbeatCall(id)
  \/ \E max_age_secs \in 0..(2^AgeWidth - 1) : CleanupStaleCall(max_age_secs)
  \/ \E id \in AgentIds : SendCommandCall(id)
  \/ SendCommandResumes
  \/ \E s \in GwSessions : ReceiverRecv(s)
  \/ \E s \in GwSessions : ReceiverDropped(s)
  \/ GwTick

\* the registry called from one task, its channels read and dropped by their sessions
RegSpec == RegInit /\ [][RegNext]_vars

\* the registry called while its sessions call heartbeat and unregister themselves; the
\* ids of two agents hash to one shard or to two
LockInit == RegState /\ reg_call \in {[NoCall EXCEPT !.same_shard = b] : b \in BOOLEAN}

LockNext ==
  \/ \E id \in AgentIds : \E tx \in GwSessions : RegisterCall(id, [role |-> "db"], tx)
  \/ \E id \in AgentIds : SendCommandCall(id)
  \/ SendCommandResumes
  \/ \E s \in GwSessions : ReceiverRecv(s)
  \/ \E s \in GwSessions : \E id \in AgentIds : SessionHeartbeat(s, id)
  \/ \E s \in GwSessions : \E id \in AgentIds : SessionCleanup(s, id)
  \/ \E s \in GwSessions : \E name \in {"heartbeat", "unregister"} : \E id \in AgentIds :
       LockGranted(Waiter(s, name, id))

LockSpec == LockInit /\ [][LockNext]_vars

(* --------------------------- GwSpec: the Gateway ----------------------- *)
GwNext ==
  \/ \E s \in GwSessions : SessionOpen(s)
  \/ \E s \in GwSessions : \E m \in FirstMessages : WaitForRegistration(s, m)
  \/ \E s \in GwSessions : Register(s)
  \/ \E s \in GwSessions : NotifyConnected(s)
  \/ \E s \in GwSessions : \E m \in AgentMessages : HandleAgentMessage(s, m)
  \/ \E s \in GwSessions : \E ok \in BOOLEAN : ForwardCommand(s, ok)
  \/ \E s \in GwSessions : SessionBreak(s)
  \/ \E s \in GwSessions : Unregister(s)
  \/ \E s \in GwSessions : NotifyDisconnected(s)
  \/ \E id \in AgentIds : CommandToAgent(id)
  \/ \E labels \in Selectors : \E order \in Orders : CommandToLabels(labels, order)
  \/ SendToNext

\* the Gateway serving agent sessions and Backend commands
GwSpec == Init /\ [][GwNext]_vars

(* ------------------- Gateway: backend_client::run ---------------------- *)
\* config.gateway.id, config.gateway.zone, CARGO_PKG_VERSION
RegisterPayloadNoAgents(agent_list) ==
  [gateway_id |-> "gateway-1", zone |-> "default", version |-> "0.1.0", agents |-> {}]
RegisterPayload(agent_list) ==
  [gateway_id |-> "gateway-1", zone |-> "default", version |-> "0.1.0", agents |-> agent_list]

\* the GatewayToBackendMessage made of a BackendMessage: its serde tag and its payload
backend_msg(msg) ==
  [type |-> CASE msg.type = "AgentConnected" -> "agent_connected"
              [] msg.type = "AgentDisconnected" -> "agent_disconnected"
              [] msg.type = "StatusUpdate" -> "status_update"
              [] msg.type = "CommandResponse" -> "command_response",
   payload |-> msg]

\* a frame that reached the Backend on the connection the bridge holds
Frame(m) == [conn |-> bridge.conn, type |-> m.type, payload |-> m.payload]

BridgeFrame ==
  UNCHANGED <<bufVars, apiVars, wireVars, agentVars, batches, cmdVars, procVars, regVars,
              agents, session, cmd_rx, backend_tx, route, enqueued>>

\* the bridge is in its select loop, no handler of a Backend message being awaited
in_select == bridge.pc = "loop" /\ route.pc = "idle" /\ reg_call.pc = "returned"

\* run starts: state.backend_tx.subscribe()
Subscribe ==
  /\ bridge.pc = "start"
  /\ bridge' = [bridge EXCEPT !.pc = "connect"]
  /\ UNCHANGED <<bridge_rx, pub_log, backend_frames, backend_in>>
  /\ BridgeFrame

\* connect_to_backend returns; Ok: register_msg is built with registry.list()
ConnectToBackend(ok) ==
  /\ bridge.pc = "connect" /\ bridge.conn < MaxConns
  /\ bridge' = IF ok
                THEN [bridge EXCEPT !.pc = "register", !.conn = @ + 1,
                                    !.register_msg = RegisterPayload(list(agents))]
                ELSE [bridge EXCEPT !.pc = "sleep"]
  /\ UNCHANGED <<bridge_rx, pub_log, backend_frames, backend_in>>
  /\ BridgeFrame

\* ws_sender.send(register_msg) returns and register_msg is gone; Err: `continue`, the outer
\* loop starts again
SendRegistration(ok) ==
  /\ bridge.pc = "register"
  /\ bridge' = [bridge EXCEPT !.pc = IF ok THEN "loop" ELSE "connect", !.register_msg = {}]
  /\ backend_frames' =
       IF ok THEN Append(backend_frames,
                         Frame([type |-> "register", payload |-> bridge.register_msg]))
       ELSE backend_frames
  /\ UNCHANGED <<bridge_rx, pub_log, backend_in>>
  /\ BridgeFrame

\* rx.recv() returns a message and it is sent; Err of the send: break
Forward(ok) ==
  /\ in_select /\ bridge_rx # <<>>
  /\ bridge_rx' = Tail(bridge_rx)
  /\ backend_frames' =
       IF ok THEN Append(backend_frames, Frame(backend_msg(Head(bridge_rx))))
       ELSE backend_frames
  /\ bridge' = [bridge EXCEPT !.pc = IF ok THEN "loop" ELSE "sleep"]
  /\ UNCHANGED <<pub_log, backend_in>>
  /\ BridgeFrame

\* heartbeat.tick(): a pong message is sent; Err of the send: break
Heartbeat(ok) ==
  /\ in_select /\ bridge.beats < MaxBeats
  /\ backend_frames' =
       IF ok THEN Append(backend_frames, Frame([type |-> "pong", payload |-> "none"]))
       ELSE backend_frames
  /\ bridge' = [bridge EXCEPT !.pc = IF ok THEN "loop" ELSE "sleep", !.beats = @ + 1]
  /\ UNCHANGED <<bridge_rx, pub_log, backend_in>>
  /\ BridgeFrame

\* a Ping frame of the Backend is answered with a Pong control frame, which is not one of
\* the bridge's messages; Err of the send: break
BackendPingFrame(ok) ==
  /\ in_select /\ bridge.beats < MaxBeats
  /\ bridge' = [bridge EXCEPT !.pc = IF ok THEN "loop" ELSE "sleep", !.beats = @ + 1]
  /\ UNCHANGED <<bridge_rx, pub_log, backend_frames, backend_in>>
  /\ BridgeFrame

\* a Close frame, an error or the end of the Backend's stream: break
BackendClosed ==
  /\ in_select
  /\ bridge' = [bridge EXCEPT !.pc = "sleep"]
  /\ UNCHANGED <<bridge_rx, pub_log, backend_frames, backend_in>>
  /\ BridgeFrame

\* tokio::time::sleep(reconnect_interval_secs) returns
SleepDone ==
  /\ bridge.pc = "sleep"
  /\ bridge' = [bridge EXCEPT !.pc = "connect"]
  /\ UNCHANGED <<bridge_rx, pub_log, backend_frames, backend_in>>
  /\ BridgeFrame

\* handle_backend_message for a Command with agent_id
BackendCommand(id) == in_select /\ CommandToAgent(id)

\* handle_backend_message for a Snapshot (nothing is forwarded) or a Ping
BackendMessagesIn ==
  {[type |-> "snapshot", agent_id |-> a] : a \in AgentIds}
  \cup {[type |-> "ping", agent_id |-> "A1"]}
HandleBackendMessage(m) ==
  /\ in_select /\ backend_in.n < MaxBackendMsgs
  /\ backend_in' = [type |-> m.type, agent_id |-> m.agent_id, n |-> backend_in.n + 1]
  /\ UNCHANGED <<bridge, bridge_rx, pub_log, backend_frames>>
  /\ BridgeFrame

BridgeSessions == 1..MaxBridgeSessions
\* the registrations the agents of BridgeSpec send
BridgeFirstMessages ==
  {[type |-> "register", frame |-> "text", agent_id |-> "A1", labels |-> [role |-> "db"]]}

BridgeNext ==
  \/ \E s \in BridgeSessions : SessionOpen(s)
  \/ \E s \in BridgeSessions : \E m \in BridgeFirstMessages : WaitForRegistration(s, m)
  \/ \E s \in BridgeSessions : Register(s)
  \/ \E s \in BridgeSessions : NotifyConnected(s)
  \/ \E s \in BridgeSessions : \E m \in AgentMessages : HandleAgentMessage(s, m)
  \/ \E s \in BridgeSessions : \E ok \in BOOLEAN : ForwardCommand(s, ok)
  \/ \E s \in BridgeSessions : SessionBreak(s)
  \/ \E s \in BridgeSessions : Unregister(s)
  \/ \E s \in BridgeSessions : NotifyDisconnected(s)
  \/ Subscribe
  \/ \E ok \in BOOLEAN : ConnectToBackend(ok)
  \/ \E ok \in BOOLEAN : SendRegistration(ok)
  \/ \E ok \in BOOLEAN : Forward(ok)
  \/ \E ok \in BOOLEAN : Heartbeat(ok)
  \/ \E ok \in BOOLEAN : BackendPingFrame(ok)
  \/ BackendClosed
  \/ SleepDone
  \/ \E id \in AgentIds : BackendCommand(id)
  \/ \E m \in BackendMessagesIn : HandleBackendMessage(m)

\* the sessions of the agents and the bridge to the Backend
BridgeSpec == Init /\ [][BridgeNext]_vars

(* --------------- SessionSpec: handle_agent from start to end ----------- *)
SessionNext ==
  \/ \E s \in GwSessions : SessionOpen(s)
  \/ \E s \in GwSessions : \E m \in BridgeFirstMessages : WaitForRegistration(s, m)
  \/ \E s \in GwSessions : Register(s)
  \/ \E s \in GwSessions : NotifyConnected(s)
  \/ \E s \in GwSessions : \E m \in AgentMessages : HandleAgentMessage(s, m)
  \/ \E s \in GwSessions : \E ok \in BOOLEAN : ForwardCommand(s, ok)
  \/ \E s \in GwSessions : SessionBreak(s)
  \/ \E s \in GwSessions : Unregister(s)
  \/ \E s \in GwSessions : NotifyDisconnected(s)
  \/ Subscribe
  \/ \E id \in AgentIds : CommandToAgent(id)

\* what follows the loop of handle_agent awaits nothing: unregister and backend_tx.send
\* are calls that return
SessionSpec ==
  /\ Init /\ [][SessionNext]_vars
  /\ \A s \in GwSessions : WF_vars(Unregister(s)) /\ WF_vars(NotifyDisconnected(s))

(* ------------------------------ claims --------------------------------- *)
\* the step of loop g that executes its next due check
ExecStep(g) ==
  /\ sched_pc[g] = "exec"
  /\ delta_seq' = delta_seq + 1
  /\ sched_due'[g] = Tail(sched_due[g])

\* the fast-path step of loop g
FastPathStep(g) == sched_pc[g] = "send" /\ sched_pc'[g] # "send"

\* the step of drain loop g that puts its item back
PutBackStep(g) ==
  /\ drain_pc[g] = "send" /\ drain_pc'[g] = "pop"
  /\ drain_data[g] \notin delivered'

\* the step of loop g that evaluates a tick with checks due
TickStep(g) == sched_pc[g] = "idle" /\ sched_pc'[g] = "exec"

Ids(S) == {d.id : d \in S}

\* C1: a delta whose status differs from the previous one of its key is, right after the
\* scheduler processed it on the fast path, delivered by a successful send or in the
\* offline buffer; afterwards it is never lost: it is delivered, in the buffer, held by a
\* drain loop between its pop and its send, or was dropped by a push onto a full buffer.
\* Only a delta with an unchanged status may sit in pending_deltas.
C1_Placed ==
  \A n \in 1..delta_seq :
    \/ n \in Ids(delivered)
    \/ n \in Ids(Range(queue))
    \/ n \in Ids(evicted)
    \/ \E g \in Gens : drain_data[g].id = n
    \/ \E g \in Gens : sched_delta[g].id = n /\ sched_pc[g] = "send"
    \/ \E g \in Gens : \E i \in 1..Len(pending_deltas[g]) :
         pending_deltas[g][i].id = n /\ ~pending_deltas[g][i].chg
C1_ChangedDeltaNotLost ==
  /\ [][\A g \in Gens : FastPathStep(g) =>
          sched_delta[g] \in delivered' \/ sched_delta[g] \in Range(queue')]_vars
  /\ []C1_Placed
\* two changed deltas went through the fast path while sends failed: one is buffered, and
\* the other was buffered too and then dropped by a push onto the full buffer
C1_Witness ==
  /\ evicted # {} /\ queue # <<>>
  /\ \A d \in evicted \cup Range(queue) : d.chg

\* C2: a produced delta takes the fast path iff its status differs from the status of the
\* previous delta of its key (or there is none); otherwise it is appended to pending_deltas
\* (ok, ok, warning, warning, ok: three immediate sends, two batched).
C2_FastPathIffChanged ==
  [][\A g \in Gens : ExecStep(g) =>
       LET key == Head(sched_due[g])
           differs == prev_status[key] = "none" \/ prev_status[key] # prev_status'[key]
       IN /\ (sched_pc'[g] = "send") <=> differs
          /\ ~differs => Len(pending_deltas'[g]) = Len(pending_deltas[g]) + 1]_vars

\* C3: a check starts only if it never ran or at least interval_secs have passed since its
\* last start, so two consecutive starts of a check are never closer than interval_secs.
C3_IntervalRespected ==
  [][\A g \in Gens : ExecStep(g) =>
       LET key == Head(sched_due[g]) IN
         last_start[key] = -1 \/ now - last_start[key] >= interval_secs(key)]_vars

\* C4: the number of queued items never exceeds max_size, for every max_size including 0.
C4_Bounded == len(queue) <= max_size

\* C5: push on a full buffer drops exactly the oldest item and appends the new one, so
\* after n > max_size pushes and nothing else the buffer holds exactly the last max_size
\* pushed items in push order.
LastPushed(k) == [i \in 1..k |-> Data(n_pushed - k + i)]
C5_KeepsLastMaxSize ==
  /\ (op = "push") => queue # <<>> /\ queue[Len(queue)] = Data(n_pushed)
  /\ (only_pushed /\ n_pushed - n_base > max_size) => queue = LastPushed(max_size)

\* C6: pop returns the oldest queued item and leaves the rest in order, one item fewer;
\* what it returns was pushed before everything still queued; on an empty buffer it
\* returns None and changes nothing; after the last item is popped is_empty holds.
C6_PopFifo ==
  [][op' = "pop" =>
       IF is_empty(queue)
       THEN ret' = None /\ queue' = queue
       ELSE /\ ret' = Head(queue)
            /\ queue' = Tail(queue)
            /\ len(queue') = len(queue) - 1
            /\ \A i \in 1..Len(queue') : queue'[i].id > ret'.id
            /\ (len(queue) = 1 => is_empty(queue'))]_vars
\* a pop returned an item while a younger one stays queued
C6_Witness == op = "pop" /\ ret # None /\ ~is_empty(queue)

\* C7: after a reconnect, with the link up and fewer than max_size deltas buffered while
\* the Gateway was unreachable, the drain loop eventually sends every buffered delta and
\* the buffer becomes empty (unless the link fails again, so that sends no longer succeed).
C7_Reconnected ==
  /\ connection >= 2 /\ is_connected /\ link_up
  /\ queue # <<>> /\ Len(queue) < max_size /\ evicted = {}
C7_Drained ==
  /\ queue = <<>>
  /\ \A g \in Gens : drain_data[g] = None
C7_BufferDrains == C7_Reconnected ~> (C7_Drained \/ ~link_up)

\* C8: when the drain loop's send fails, the popped item is put back at the front of the
\* buffer: it is again the next item popped, ahead of the items queued behind it, and the
\* put-back evicts nothing.
C8_PutBackKeepsOrder ==
  [][\A g \in Gens : PutBackStep(g) =>
       queue' = <<drain_data[g]>> \o queue /\ evicted' = evicted]_vars

\* C9: the buffer file of the agent's buffer holds exactly the in-memory queue, so a
\* buffer re-created from it with the same max_size equals the queue before the restart.
C9_AgentBufferDurable ==
  by_agent => load_from_file(<<>>, max_size, TRUE, file) = queue

\* C10: once S1 = (c1, c2) is replaced by S2 = (c2, c3), a tick that evaluates S2 starts
\* no c1; every tick evaluates S1 entirely or S2 entirely; and the first c3 starts within
\* interval_secs(c3) + 1 seconds of the replacement.
C10_SnapshotReplacement ==
  /\ [][\A g \in Gens : TickStep(g) =>
          /\ Range(sched_due'[g]) \subseteq Range(snapshot.checks)
          /\ Range(sched_due'[g]) \subseteq Range(S1) \/ Range(sched_due'[g]) \subseteq Range(S2)
          /\ snapshot = Some(S2) => "c1" \notin Range(sched_due'[g])]_vars
  /\ [](c3_waiting => now <= replaced_at + interval_secs("c3") + 1)

BatchStep(g) ==
  /\ sched_pc[g] = "idle" /\ sched_pc'[g] = "idle"
  /\ pending_deltas[g] # <<>> /\ pending_deltas'[g] = <<>>

\* the last n items of q
LastItems(q, n) == SubSeq(q, IF Len(q) > n THEN Len(q) - n + 1 ELSE 1, Len(q))

\* C12: a batch tick with a non-empty pending batch takes the whole batch, leaving it
\* empty, and sends it as one status_batch message; when the send fails or there is no
\* connection every delta of the batch is pushed onto the offline buffer in batch order,
\* so a batched delta is lost only to the overflow of the buffer.
C12_BatchFlush ==
  [][\A g \in Gens : BatchStep(g) =>
       LET batch == pending_deltas[g] IN
         IF send_ok
         THEN /\ batches' = batches \cup {batch}
              /\ delivered' = delivered \cup Range(batch)
              /\ queue' = queue /\ evicted' = evicted
         ELSE /\ batches' = batches /\ delivered' = delivered
              /\ queue' = LastItems(queue \o batch, max_size)
              /\ evicted' = evicted \cup (Range(queue \o batch) \ Range(queue'))]_vars
\* a batch of two unchanged deltas could not be sent and sits in the buffer in batch order
C12_Witness ==
  /\ Len(queue) = 2 /\ batches = {}
  /\ ~queue[1].chg /\ ~queue[2].chg /\ queue[1].id < queue[2].id
  /\ \A g \in Gens : pending_deltas[g] = <<>>


\* positions of cmd_log holding a response of command id (terminal: not "started")
Started(id) ==
  {i \in DOMAIN cmd_log : cmd_log[i].ev = "response" /\ cmd_log[i].id = id
                            /\ cmd_log[i].status = "started"}
Terminal(id) ==
  {i \in DOMAIN cmd_log : cmd_log[i].ev = "response" /\ cmd_log[i].id = id
                            /\ cmd_log[i].status # "started"}
Steps(ev, id) == {i \in DOMAIN cmd_log : cmd_log[i].ev = ev /\ cmd_log[i].id = id}
Before(S, i) == \E j \in S : j < i
\* the handler of command id has returned
Handled(id) == id <= cmd_count /\ cmd_cur.id # id
AsyncLogged(id) == \E i \in DOMAIN cmd_log : cmd_log[i].id = id /\ cmd_log[i].async

\* C13 (as stated): every terminal response of an async command follows a sent started
\* response and the detachment, in that order, and is completed with exit_code 0.
C13_StartedDetachCompleted ==
  \A id \in CmdIds : \A i \in Terminal(id) :
    cmd_log[i].async =>
      /\ cmd_log[i].status = "completed" /\ cmd_log[i].has_result /\ cmd_log[i].exit_code = 0
      /\ \E s \in Started(id) : \E f \in Steps("fork", id) : \E r \in Steps("returned", id) :
           cmd_log[s].sent /\ s < f /\ f < r /\ r < i

\* C13 (amended): for an async command the started response is handed to the connection
\* first and nothing is executed unless it was sent; the first fork comes after it; the
\* terminal response is completed with exit_code 0 exactly when spawn_detached returned
\* Ok and failed otherwise (no command in params, or the first fork failed); a handled
\* command whose started response was sent has exactly one terminal response, after it.
C13_AsyncResponses ==
  \A id \in CmdIds : AsyncLogged(id) =>
    /\ Cardinality(Started(id)) <= 1 /\ Cardinality(Terminal(id)) <= 1
    /\ \A i \in Steps("fork", id) \cup Steps("returned", id) \cup Terminal(id) :
         \E s \in Started(id) : cmd_log[s].sent /\ s < i
    /\ \A i \in Steps("returned", id) : Before(Steps("fork", id), i)
    /\ \A i \in Terminal(id) :
         /\ cmd_log[i].status \in {"completed", "failed"}
         /\ cmd_log[i].status = "completed" <=> Before(Steps("returned", id), i)
         /\ cmd_log[i].status = "completed" => cmd_log[i].has_result /\ cmd_log[i].exit_code = 0
         /\ cmd_log[i].status = "failed" => ~cmd_log[i].has_result
    /\ Handled(id) /\ (\E s \in Started(id) : cmd_log[s].sent) => Cardinality(Terminal(id)) = 1
    /\ Handled(id) /\ (\A s \in Started(id) : ~cmd_log[s].sent) => Terminal(id) = {}

\* one async command detached and reported completed, another one reported failed
C13_Witness ==
  \E a, b \in CmdIds :
    /\ \E i \in Terminal(a) : cmd_log[i].async /\ cmd_log[i].status = "completed" /\ cmd_log[i].sent
    /\ \E i \in Terminal(b) : cmd_log[i].async /\ cmd_log[i].status = "failed" /\ cmd_log[i].sent

\* spawn_detached has returned Ok to the agent for command c
Returned(c) == Steps("returned", c) # {}

\* C14: once spawn_detached has returned, the intermediate child is reaped and the job,
\* if the second fork made one, is parented by init, leads no part of the agent's session
\* and ignores SIGHUP; SIGHUP is ignored and the session is new before the second fork;
\* terminating the agent, hangup or not, leaves every job as it was.
C14_JobDetached ==
  /\ [](\A c \in CmdIds : Returned(c) =>
          /\ inter[c].st = "reaped"
          /\ job[c] # NoProc =>
               /\ job[c].parent = "init"
               /\ job[c].sid = "own" /\ job[c].sighup = "ignore"
               /\ job[c].st # "killed")
  /\ [][\A c \in CmdIds :
          /\ job[c] = NoProc /\ job'[c] # NoProc =>
               /\ inter[c].sid = "own" /\ inter[c].sighup = "ignore"
               /\ job'[c].sid = "own" /\ job'[c].sighup = "ignore"
          /\ agent_alive /\ ~agent_alive' => job'[c] = job[c]]_vars

\* the agent was terminated after spawn_detached returned, and the job runs its command
C14_Witness ==
  /\ ~agent_alive
  /\ \E c \in CmdIds :
       Returned(c) /\ job[c].st = "running" /\ job[c].pc = "command" /\ inter[c].st = "reaped"

\* C15: the terminal response of a sync command (check, native) is completed iff the
\* command ran and exited with code 0, timeout iff it exceeded timeout_secs and failed
\* when it exited with another code, was killed or could not be executed; a sync command
\* gets no started response and exactly one terminal response.
C15_SyncStatus ==
  /\ \A id \in CmdIds : \A i \in Terminal(id) :
       cmd_log[i].sync =>
         /\ cmd_log[i].status = "completed" <=> cmd_log[i].truth = "exit_zero"
         /\ cmd_log[i].status = "timeout" <=> cmd_log[i].truth = "timed_out"
         /\ cmd_log[i].truth \in {"exit_nonzero", "not_executed", "wait_failed"}
              => cmd_log[i].status = "failed"
         /\ cmd_log[i].status \in {"completed", "failed", "timeout"}
         /\ Started(id) = {}
         /\ Cardinality(Terminal(id)) = 1
  /\ \A id \in CmdIds : Handled(id) => AsyncLogged(id) \/ Cardinality(Terminal(id)) = 1

\* one sync command answered with timeout and another one with failed for a non-zero exit
C15_Witness ==
  \E a, b \in CmdIds :
    /\ \E i \in Terminal(a) : cmd_log[i].sync /\ cmd_log[i].status = "timeout"
    /\ \E i \in Terminal(b) :
         cmd_log[i].sync /\ cmd_log[i].status = "failed" /\ cmd_log[i].truth = "exit_nonzero"

\* no session is between wait_for_registration's return and the loop, or in its cleanup
Quiescent == \A s \in GwSessions : session[s].pc \in {"closed", "wait", "loop", "returned"}
\* the live sessions that completed registration
LiveRegistered == {s \in GwSessions : session[s].pc = "loop"}

\* C16: outside the connect and disconnect transitions the registry's count equals the
\* number of live sessions that completed registration.
C16_CountIsLiveSessions == Quiescent => count(agents) = Cardinality(LiveRegistered)

\* the BackendMessages session s caused
PublishedBy(s) == {m \in backend_tx : m.session = s}

\* C17: a session that has sent no first message yet, or whose first message is not
\* register, has no registry entry, never called register and caused no message on the
\* broadcast channel; every StatusUpdate and CommandResponse on the channel comes from a
\* session that registered and announced AgentConnected before.
C17_AnonymousNeverPublishes ==
  /\ \A s \in GwSessions :
       session[s].pc \in {"closed", "wait"} \/ session[s].first.type # "register" =>
         /\ ~session[s].registered
         /\ PublishedBy(s) = {}
         /\ \A a \in AgentIds : agents[a].present => agents[a].tx # s
  /\ \A m \in backend_tx :
       m.type \in {"StatusUpdate", "CommandResponse"} =>
         /\ session[m.session].registered
         /\ session[m.session].first.type = "register"
         /\ \E c \in PublishedBy(m.session) : c.type = "AgentConnected"

\* one session was turned away for a first message that is not register while another
\* one registered and published a status update
C17_Witness ==
  \E s, t \in GwSessions :
    /\ session[s].pc = "returned" /\ session[s].first.type = "status_delta"
    /\ \E m \in PublishedBy(t) : m.type = "StatusUpdate"

\* the key/value pairs of a label map
Pairs(m) == {<<k, m[k]>> : k \in DOMAIN m}
\* a step in which find_by_labels is called for a Backend command
FindStep == route'.cmd = route.cmd + 1 /\ route'.by = "labels"
\* the registered agents whose labels hold every pair of labels
Supersets(labels) == {a \in AgentIds : agents[a].present /\ Pairs(labels) \subseteq Pairs(agents[a].labels)}

\* C18: find_by_labels(L) returns exactly the registered agents whose labels contain
\* every key/value pair of L, each of them once.
C18_FindByLabelsExact ==
  [][FindStep =>
       /\ Range(route'.found) = Supersets(route'.labels)
       /\ Len(route'.found) = Cardinality(Supersets(route'.labels))]_vars

\* a call that returned one agent and left out a registered one: one for a different
\* value of role, one for a missing key env
C18_Witness ==
  /\ route.by = "labels" /\ Len(route.found) = 1 /\ route.pc = "send"
  /\ \A a \in AgentIds : agents[a].present
  /\ \/ /\ route.labels = [role |-> "web", env |-> "prod"]
        /\ \E a \in AgentIds : agents[a].labels = [role |-> "db", env |-> "prod"]
     \/ /\ route.labels = [env |-> "prod"]
        /\ \E a \in AgentIds : agents[a].labels = [role |-> "db"]

\* the agents the command being routed was enqueued for
EnqueuedFor(cmd) == {e.agent_id : e \in {x \in enqueued : x.cmd = cmd}}

\* C19: find_by_labels with an empty label set returns the empty list, and a Backend
\* command whose selector is an empty label map is enqueued to no agent.
C19_EmptySelectorMatchesNothing ==
  route.by = "labels" /\ DOMAIN route.labels = {} =>
    route.found = <<>> /\ EnqueuedFor(route.cmd) = {}

\* the agents of the results so far, and those whose send returned Ok
ResultIds(results) == {results[i].agent_id : i \in DOMAIN results}
OkIds(results) == {results[i].agent_id : i \in {j \in DOMAIN results : results[j].ok}}
\* A1 {role: db, env: prod} and A2 {role: web, env: prod} are registered
TwoAgents ==
  /\ agents["A1"].present /\ agents["A1"].labels = [role |-> "db", env |-> "prod"]
  /\ agents["A2"].present /\ agents["A2"].labels = [role |-> "web", env |-> "prod"]
\* a step of send_command_to_labels sending to the next agent found
SendStep == route.pc = "send" /\ Len(route'.results) = Len(route.results) + 1

RegisterStep(s) == session[s].pc = "register" /\ session'[s].pc = "notify"
\* send_command returned Ok in this step: the sends it added
NewSends == enqueued' \ enqueued

\* C21: register with an id already present replaces the entry: the id keeps one entry,
\* now with the labels and the command channel of the new session, count is unchanged
\* and the entries of other ids are untouched; a command sent to an id goes to the queue
\* of the session of its current entry and to no other queue.
C21_RegisterReplaces ==
  [][/\ \A s \in GwSessions :
          LET id == session[s].first.agent_id IN
          RegisterStep(s) /\ agents[id].present =>
            /\ agents'[id] = [present |-> TRUE, labels |-> session[s].first.labels, tx |-> s,
                           last_heartbeat |-> gw_now]
            /\ count(agents') = count(agents)
            /\ \A a \in AgentIds \ {id} : agents'[a] = agents[a]
      /\ \A e \in NewSends :
            /\ e.session = agents[e.agent_id].tx
            /\ cmd_rx' = [cmd_rx EXCEPT ![e.session] = Append(@, e.cmd)]]_vars

\* two live sessions registered the same id; the command sent to it sits in the queue of
\* the one that registered last
C21_Witness ==
  \E s, t \in GwSessions :
    /\ s # t /\ session[s].pc = "loop" /\ session[t].pc = "loop"
    /\ session[s].first.agent_id = session[t].first.agent_id
    /\ agents[session[t].first.agent_id].tx = t
    /\ cmd_rx[t] # <<>> /\ cmd_rx[s] = <<>>

\* a step in which the registry's API is called with the operation name
CallStep(name) == reg_call'.n = reg_call.n + 1 /\ reg_call'.op = name
\* the channel of the entry of id is closed: the session that held its receiver returned
QueueClosed(id) == agents[id].present /\ session[agents[id].tx].pc = "returned"

\* C22: send_command(id, cmd) returns an error and enqueues nothing when id is not
\* registered or the queue of its session is closed, also when the queue is closed while
\* the send waits; the registry is unchanged and the call returns to the bridge, which
\* goes on.
C22_SendCommandFails ==
  [][/\ CallStep("send_command") /\ (~agents[reg_call'.id].present \/ QueueClosed(reg_call'.id)) =>
         /\ ~reg_call'.ok /\ reg_call'.pc = "returned"
         /\ cmd_rx' = cmd_rx /\ enqueued' = enqueued /\ agents' = agents
     /\ reg_call.pc = "blocked" /\ reg_call'.pc = "returned" /\ QueueClosed(reg_call.id) =>
         /\ ~reg_call'.ok
         /\ cmd_rx' = cmd_rx /\ enqueued' = enqueued /\ agents' = agents]_vars

\* a send to a registered agent whose queue is closed returned an error and enqueued
\* nothing, another id not being registered
C22_Witness ==
  /\ reg_call.op = "send_command" /\ reg_call.pc = "returned" /\ ~reg_call.ok
  /\ QueueClosed(reg_call.id)
  /\ \E a \in AgentIds : ~agents[a].present
  /\ enqueued = {}

\* C23: when the queue of an agent's session is full, send_command to that agent returns
\* a failure to its caller without waiting and without enqueuing, the queue unchanged.
C23_FullQueueFails ==
  [][CallStep("send_command") /\ agents[reg_call'.id].present
       /\ Len(cmd_rx[agents[reg_call'.id].tx]) = ChannelCapacity =>
         /\ reg_call'.pc = "returned" /\ ~reg_call'.ok
         /\ cmd_rx' = cmd_rx]_vars

\* C24: cleanup_stale(age) removes exactly the entries whose last heartbeat is more than
\* age seconds old and leaves every other entry as it was; heartbeat(id) and
\* unregister(id) for an id that is not registered change nothing.
C24_CleanupStale ==
  [][/\ CallStep("cleanup_stale") =>
         \A a \in AgentIds :
           agents'[a] = IF agents[a].present /\ gw_now - agents[a].last_heartbeat > reg_call'.age
                        THEN NoAgent ELSE agents[a]
     /\ (CallStep("heartbeat") \/ CallStep("unregister")) /\ ~agents[reg_call'.id].present =>
         agents' = agents]_vars

Connected(s) == Published("AgentConnected", s)
Disconnected(s) == Published("AgentDisconnected", s)
Places(msg) == {i \in 1..Len(pub_log) : pub_log[i] = msg}
Ended(s) == session[s].pc \in {"unregister", "notify_disc", "returned"}

C26_OneMessageEach ==
  [][\A s \in GwSessions : \A m \in AgentMessages :
       HandleAgentMessage(s, m) /\ has_receiver =>
         /\ m.type \in {"status_delta", "status_batch"} =>
               pub_log' = Append(pub_log, Published("StatusUpdate", s))
         /\ m.type = "command_response" =>
               pub_log' = Append(pub_log, Published("CommandResponse", s))
         /\ m.type = "register" => pub_log' = pub_log /\ agents' = agents]_vars

\* the first frame the Backend received on each connection
FirstFrames ==
  {i \in 1..Len(backend_frames) :
     \A j \in 1..(i - 1) : backend_frames[j].conn # backend_frames[i].conn}
Connects == bridge.pc = "connect" /\ bridge'.pc = "register"

\* C27: on every connection to the Backend the first frame of the bridge is register, and
\* it carries gateway_id, zone, version and the list() of the registry as it was when the
\* connection was made; no other frame of the bridge precedes it on the connection.
C27_RegisterFirst ==
  /\ [](\A i \in FirstFrames :
          /\ backend_frames[i].type = "register"
          /\ backend_frames[i].payload.gateway_id = "gateway-1"
          /\ backend_frames[i].payload.zone = "default"
          /\ backend_frames[i].payload.version = "0.1.0")
  /\ [][/\ Connects => bridge'.register_msg.agents = list(agents)
        /\ Len(backend_frames') > Len(backend_frames) /\ bridge.pc = "register" =>
              /\ backend_frames' = Append(backend_frames, backend_frames'[Len(backend_frames')])
              /\ backend_frames'[Len(backend_frames')].conn = bridge.conn
              /\ backend_frames'[Len(backend_frames')].payload = bridge.register_msg]_vars

\* the bridge reconnected and registered again, now listing an agent, after frames of
\* other kinds on its first connection
C27_Witness ==
  \E i, j, k \in 1..Len(backend_frames) :
    /\ i < j /\ j < k
    /\ backend_frames[i].type = "register" /\ backend_frames[i].conn = 1
    /\ backend_frames[j].type # "register" /\ backend_frames[j].conn = 1
    /\ backend_frames[k].type = "register" /\ backend_frames[k].conn = 2
    /\ backend_frames[k].payload.agents # {}

\* the BackendMessages the Backend received, in the order of their frames
IsForwarded(f) == f.type \notin {"register", "pong"}
Forwarded ==
  LET fs == SelectSeq(backend_frames, IsForwarded) IN [i \in 1..Len(fs) |-> fs[i].payload]

\* C28: the messages handed to the bridge's receiver reach the Backend once each and in
\* the order of their sends, whatever happens to the connection: at any time the messages
\* the Backend received, followed by those still waiting in the receiver, are the
\* messages sent so far.
C28_ForwardedOnce == Forwarded \o bridge_rx = pub_log

\* C29: the bridge makes a new connection attempt only after the wait of
\* reconnect_interval_secs: whatever failed (the connect, the send of register, a read, a
\* write, a close), run comes back to connect_to_backend from its sleep and from nowhere
\* else.
C29_WaitsBeforeRetry ==
  [][bridge'.pc = "connect" /\ bridge.pc \notin {"start", "connect"} =>
       bridge.pc = "sleep"]_vars

\* C30: a snapshot message of the Backend for a registered agent puts a message on the
\* channel of that agent's session.
C30_SnapshotEnqueued ==
  [][/\ backend_in'.n = backend_in.n + 1 /\ backend_in'.type = "snapshot"
     /\ agents[backend_in'.agent_id].present
     => Len(cmd_rx'[agents[backend_in'.agent_id].tx])
          = Len(cmd_rx[agents[backend_in'.agent_id].tx]) + 1]_vars

\* the loops that run_connected has spawned and that are still running
SchedulerLoops == {g \in Gens : sched_pc[g] # "off"}
DrainLoops == {g \in Gens : drain_pc[g] # "off"}

\* C35: at any time at most one scheduler loop and one buffer-drain loop are running, and
\* none outside a run_connected: when run_connected has returned its loops have stopped.
C35_OneLoopEach ==
  /\ Cardinality(SchedulerLoops) <= 1 /\ Cardinality(DrainLoops) <= 1
  /\ sup_pc = "connect" => SchedulerLoops = {} /\ DrainLoops = {}

\* C36: a session that is in its loop and was the last to register its agent_id keeps its
\* entry: the teardown of an older session of that agent_id does not remove it.
C36_NewSessionStaysRegistered ==
  [][\A s \in GwSessions :
       LET id == session[s].first.agent_id IN
         /\ session[s].pc = "loop" /\ session'[s].pc = "loop"
         /\ agents[id].present /\ agents[id].tx = s
         => agents'[id].present]_vars

\* C38: the state lock is not kept while the read loop waits for a message of the
\* Gateway: a scheduler loop or a drain loop that wants the lock gets it, whether the
\* Gateway sends anything or not.
C38_LockFreeWhileWaiting ==
  \A g \in Gens :
    /\ sched_pc[g] = "send" ~> sched_pc[g] # "send"
    /\ drain_pc[g] = "send" ~> drain_pc[g] # "send"

\* the terminal responses of command id that were handed to send_command_response
TerminalResponses(log, id) ==
  {i \in 1..Len(log) : log[i].ev = "response" /\ log[i].id = id /\ log[i].status # "started"}

\* C39: when the handler of a command returns, one terminal response of that command has
\* been handed to the connection, whatever became of the started response.
C39_TerminalResponseAttempted ==
  [][cmd_cur # NoCmd /\ cmd_cur' = NoCmd =>
       Cardinality(TerminalResponses(cmd_log', cmd_cur.id)) = 1]_vars

\* C34: the started response of an async command names the job by the job_id generated
\* for the detached job, the one spawn_detached names the log file with.
C34_StartedNamesJob ==
  \A id \in CmdIds : \A s \in Started(id) : \A f \in Steps("fork", id) :
    cmd_log[s].job_id = cmd_log[f].job_id

\* C40: a command of a type execute_command does not know gets no started response and
\* no process, and when its handler returns it has been answered with exactly one
\* terminal response, of status failed with an error and no result.
C40_UnknownTypeFailed ==
  [][cmd_cur.command_type \in UnknownTypes /\ cmd_cur' = NoCmd =>
       /\ Started(cmd_cur.id)' = {} /\ Steps("fork", cmd_cur.id)' = {}
       /\ inter'[cmd_cur.id] = NoProc /\ job'[cmd_cur.id] = NoProc
       /\ Cardinality(TerminalResponses(cmd_log', cmd_cur.id)) = 1
       /\ \A i \in TerminalResponses(cmd_log', cmd_cur.id) :
            cmd_log'[i].status = "failed" /\ ~cmd_log'[i].has_result]_vars

\* C37: while send_command to an agent waits on the agent's full command queue, the
\* session of that agent is never kept waiting by the registry: its heartbeat and its
\* unregister return, and it goes on taking commands from the queue.
C37_SessionNotBlockedBySend ==
  reg_call.pc = "blocked" => ~lock_wait(agents[reg_call.id].tx)

Sends == {i \in DOMAIN wire : wire[i].ev = "send"}

\* C32: every frame the agent writes to the WebSocket, a drained buffer item included, is
\* an enveloped message whose type is one of the five tags of AgentMessage.
C32_FramesEnveloped == \A i \in Sends : frame_type(wire[i].frame) \in AgentTags

\* the pushes of item x into the offline buffer
Buffered(x) == {k \in DOMAIN wire : wire[k].ev = "buffer" /\ wire[k].frame = x}
Drained == {i \in Sends : wire[i].via = "drain"}

\* C31: the buffered items the agent sends upstream leave in the order in which they
\* were buffered.
C31_DrainedInBufferOrder ==
  \A i, j \in Drained :
    i < j => \E a \in Buffered(wire[i].frame) : \A b \in Buffered(wire[j].frame) : a < b

\* C33: the execution of a check that fails yields exactly one delta, of status error,
\* and leaves the scheduler loop running with the remaining due checks.
C33_FailingCheckReported ==
  [][\A g \in Gens : \A outcome \in FailureOutcomes :
       SchedExecFails(g, outcome) =>
         /\ delta_seq' = delta_seq + 1
         /\ prev_status'[Head(sched_due[g])] = "error"
         /\ sched_pc'[g] # "off"
         /\ sched_due'[g] = Tail(sched_due[g])]_vars
====
